---------------------------- MODULE Spec2Model ----------------------------
(***************************************************************************)
(* Uniswap V3 position valuation (entity/uniswap_v3_position.py), the pool *)
(* price (contracts/uniswap_v3_pool.py), the view-call cache of a contract *)
(* object (contracts/contract.py, entity/batch.py) and the listing of      *)
(* positions (manager/uniswap_manager.py).                                 *)
(*                                                                         *)
(* Numbers.  The source computes with Python ints (unbounded), Decimal and *)
(* float.  Here every non-integer value is an exact rational [n, d] with   *)
(* d > 0, kept in lowest terms; the fixed-point scales 2**96, 2**128 and   *)
(* the tick base 1.0001 are scaled down (Q96, Q128, SqrtTickBase) so that  *)
(* every product stays within 32-bit integers.  Rounding of Decimal        *)
(* (28 significant digits) and of float is outside the model: all values   *)
(* of the model are exactly representable in both.                         *)
(*                                                                         *)
(* Objects.  A Python value whose type matters (a cached view result, an   *)
(* optional date, a BatchStruct) is a record tagged with its type, so that *)
(* truth-value testing is computed as Python computes it.                  *)
(***************************************************************************)
EXTENDS Integers, Sequences, FiniteSets, TLC

\* ------------------------------------------------------------------ bounds
\* Position ticks range over -MaxTick .. MaxTick.
MaxTick == 1
\* Liquidity ranges over 0 .. MaxLiquidity (uint128 on chain: never negative).
MaxLiquidity == 2
\* Token decimals range over 0 .. MaxDecimals.
MaxDecimals == 1
\* Q96 = 2^Q96Bits stands for the source's 2**96.
Q96Bits == 1
\* Q128 = 2^Q128Bits stands for the source's 2**128.
Q128Bits == 5
\* The square root of the tick base: 1.0001 ** (1/2) in the source.
SqrtTickBase == 2
\* The clock and the block timestamps range over 0 .. MaxTime (seconds).
MaxTime == 4
\* Blocks are numbered 0 .. MaxBlock.
MaxBlock == 3
\* A contract's _sync_num_of_calls is followed down to -MaxSyncDebt.
MaxSyncDebt == 6
\* Seconds in a day: 24*60*60 in the source, scaled down.
SecondsPerDay == 2
\* Days in a year: 365 in the source, scaled down.
DaysPerYear == 2

\* ------------------------------------------------------- exact arithmetic
RECURSIVE Pow(_, _)
Pow(b, e) == IF e = 0 THEN 1 ELSE b * Pow(b, e - 1)

Abs(a) == IF a < 0 THEN -a ELSE a

RECURSIVE GCD(_, _)
GCD(a, b) == IF b = 0 THEN a ELSE GCD(b, a % b)

\* The rational n/d (d # 0) in lowest terms with a positive denominator.
Rat(n, d) ==
    LET s == IF d < 0 THEN -1 ELSE 1
        g == GCD(Abs(n), Abs(d))
    IN  [n |-> (s * n) \div g, d |-> (s * d) \div g]

RInt(a) == [n |-> a, d |-> 1]
RAdd(a, b) == Rat(a.n * b.d + b.n * a.d, a.d * b.d)
RSub(a, b) == Rat(a.n * b.d - b.n * a.d, a.d * b.d)
RMul(a, b) == Rat(a.n * b.n, a.d * b.d)
RDiv(a, b) == Rat(a.n * b.d, a.d * b.n)
RLt(a, b) == a.n * b.d < b.n * a.d
RLe(a, b) == a.n * b.d <= b.n * a.d
REq(a, b) == a.n * b.d = b.n * a.d
RZero == RInt(0)

\* Python's b ** e for an int b > 0 and an int e: a float when e < 0.
PyPow(b, e) == IF e >= 0 THEN RInt(Pow(b, e)) ELSE Rat(1, Pow(b, -e))

Q96 == Pow(2, Q96Bits)
Q128 == Pow(2, Q128Bits)

\* 1.0001 ** (tick / 2) and 1.0001 ** int(tick).
TickToSqrtPrice(tick) == PyPow(SqrtTickBase, tick)
TickToPrice(tick) == PyPow(SqrtTickBase * SqrtTickBase, tick)

\* --------------------------------------------------------- Python values
None == [type |-> "NoneType"]
PyInt(n) == [type |-> "int", v |-> n]
PyBool(b) == [type |-> "bool", v |-> b]
PyStr(s) == [type |-> "str", v |-> s]
PyList(s) == [type |-> "list", v |-> s]
\* A dict as map_contract_result builds it: one entry per named output.
PyDict(d) == [type |-> "dict", v |-> d]
\* A timezone-aware datetime, as seconds since the epoch.
PyDatetime(t) == [type |-> "datetime", v |-> t]

\* bool(x): None, 0, False, "" and empty collections are false; a dict of
\* named outputs, a datetime and a dataclass instance are true.
Truthy(x) ==
    CASE x.type = "NoneType" -> FALSE
      [] x.type = "int" -> x.v # 0
      [] x.type = "bool" -> x.v
      [] x.type = "str" -> x.v # ""
      [] x.type = "list" -> x.v # <<>>
      [] OTHER -> TRUE

\* ------------------------------------------------------------------- state
VARIABLES
    position_data,          \* self.position_data: the on-chain position record
    creation_date,          \* self.creation_date: None or a datetime
    all_positions,          \* the position ids held by the "positions" cache
    contracts,              \* the Contract objects: pool and position manager
    chain,                  \* what the chain holds now: view results, blocks, logs
    now,                    \* datetime.now(timezone.utc), in seconds
    decimals0,              \* pool.get_token0().get_decimals()
    decimals1,              \* pool.get_token1().get_decimals()
    ret_fees,               \* what get_total_fees_collected returned, <<>> before
    ret_locked,             \* what get_total_locked_amount returned
    ret_active,             \* what is_active returned
    ret_closed,             \* what is_closed returned
    ret_range,              \* what get_price_range returned
    ret_apy,                \* what calculate_position_apy returned or raised
    ret_apy_legacy,         \* the same for the revision in src/uniswap_v3_position.py
    ret_init_date,          \* what get_deposit_init_date returned
    ret_view,               \* what the last direct view call on the pool returned
    ret_refresh,            \* the position as refresh returned it
    open_batch,             \* the Batch object in use, None outside a batch
    ret_batch,              \* what Batch.execute returned
    txs,                    \* the transactions the running operation has built
    ret_op,                 \* how the operation ended: its locals, what it raised
    pc,                     \* where send_txs / get_raw_txs / estimate_txs stands
    signed,                 \* the transactions signed so far, in order
    network,                \* the transactions broadcast so far, in order
    receipts,               \* the broadcast transactions mined so far
    key_reads,              \* how often the private key was read
    ret_ticks               \* what get_ticks returned

pool == contracts.pool
position_manager == contracts.position_manager
factory == contracts.factory

\* The cache key of a view call: hash(tuple(args + (contract_function + '_data',))).
CacheKey(contract_function, args) == [f |-> contract_function, args |-> args]

\* What a contract object holds for a view call once it was made.
cached(self, contract_function, args) == self.cache[CacheKey(contract_function, args)].v

\* The pool's cached view results the valuation reads.
slot0 == cached(pool, "slot0", <<>>)
tick_low == cached(pool, "ticks", <<position_data.tickLower>>)
tick_high == cached(pool, "ticks", <<position_data.tickUpper>>)
feeGrowthGlobal0X128 == cached(pool, "feeGrowthGlobal0X128", <<>>)
feeGrowthGlobal1X128 == cached(pool, "feeGrowthGlobal1X128", <<>>)

snapshot == <<position_data, creation_date, pool.cache, decimals0, decimals1>>
rets == <<ret_fees, ret_locked, ret_active, ret_closed, ret_range, ret_apy,
          ret_apy_legacy, ret_init_date, ret_view>>
\* The state of batches and of the operations building transactions.
ops == <<ret_refresh, open_batch, ret_batch, txs, ret_op, pc, signed, network, receipts,
         key_reads, ret_ticks>>
vars == <<position_data, creation_date, all_positions, contracts, chain, now,
          decimals0, decimals1, rets, ops>>

Called(r) == r # <<>>
Val(r) == r[1]

\* ------------------------------------------------- what the chain reports
Ticks == (-MaxTick) .. MaxTick
Liquidities == 0 .. MaxLiquidity
Decimals == 0 .. MaxDecimals

\* The largest sqrtPriceX96 of the model: one step above the highest position tick.
MaxSqrtPriceX96 == Q96 * Pow(SqrtTickBase, MaxTick) + 1
SqrtPriceX96Values == 1 .. MaxSqrtPriceX96

\* The pool keeps slot0.tick as the tick whose price interval holds the
\* current price: base^(tick/2) <= sqrtPriceX96 / 2^96 < base^((tick+1)/2).
TickAtSqrtPrice(x) ==
    CHOOSE t \in (-(Q96Bits + 1)) .. (MaxTick + 1) :
        /\ RLe(TickToSqrtPrice(t), Rat(x, Q96))
        /\ RLt(Rat(x, Q96), TickToSqrtPrice(t + 1))

Slot0Values == { [sqrtPriceX96 |-> x, tick |-> TickAtSqrtPrice(x)] : x \in SqrtPriceX96Values }

\* ------------------------------------------------------- contract objects
\* The token id of the one position the model follows.
position_id == 1
\* The wallet holding it, and the pool it is in: the position's token0,
\* token1 and fee, which never change on chain.
wallet_address == 0
token0 == 0
token1 == 1
fee == 5

\* The view calls of the model, by cache key.
PoolKeys ==
    {CacheKey("slot0", <<>>), CacheKey("feeGrowthGlobal0X128", <<>>),
     CacheKey("feeGrowthGlobal1X128", <<>>)} \cup {CacheKey("ticks", <<t>>) : t \in Ticks}
PositionManagerKeys ==
    {CacheKey("positions", <<position_id>>), CacheKey("balanceOf", <<wallet_address>>),
     CacheKey("tokenOfOwnerByIndex", <<wallet_address, 0>>)}
FactoryKeys == {CacheKey("getPool", <<token0, token1, fee>>)}
CacheKeys == PoolKeys \cup PositionManagerKeys \cup FactoryKeys

\* self.contract.functions[contract_function](*args): a call ready to be sent.
ContractFunction(contract_address, cache_key) ==
    [type |-> "ContractFunction", address |-> contract_address, v |-> cache_key]

\* BatchStruct(): every field None.
BatchStruct ==
    [type |-> "BatchStruct", contract |-> None, func_name |-> None, args |-> None,
     result |-> None, func_obj |-> None]

\* Contract.__init__: nothing cached, no sync requested, no nonce, no batch.
Contract(contract_address) ==
    [contract_address |-> contract_address, _sync_num_of_calls |-> 0, _nonce |-> None,
     _batch |-> None, cache |-> [k \in CacheKeys |-> None]]

\* Contract.sync: the next num_of_calls view calls go to the chain.
sync(self, num_of_calls) == [self EXCEPT !._sync_num_of_calls = num_of_calls]

\* Contract.batch_or_get_cache: the next view call reports into the batch item.
batch_or_get_cache(self, batch) == [self EXCEPT !._batch = batch]

\* Contract.call_view_func.  onchain is what contract_function_obj.call()
\* would return, already mapped by map_contract_result (a tuple of outputs
\* becomes a dict, a single output stays as it is).  The result holds the
\* object after the call, the value returned, the batch item after the call
\* (None without a batch) and the number of chain calls issued.
call_view_func(self, contract_function, args, onchain) ==
    LET cache_key == CacheKey(contract_function, args)
        item == IF Truthy(self._batch)
                THEN [self._batch EXCEPT !.func_name = PyStr(contract_function),
                                         !.args = PyList(args),
                                         !.contract = PyStr(self.contract_address)]
                ELSE None
    IN  IF self._sync_num_of_calls > 0 \/ ~Truthy(self.cache[cache_key])
        THEN IF Truthy(self._batch)
             THEN LET batch == [item EXCEPT !.func_obj = ContractFunction(self.contract_address, cache_key)]
                  IN  [self |-> [self EXCEPT !._batch = None],
                       result |-> batch, item |-> batch, chain_calls |-> 0]
             ELSE [self |-> [self EXCEPT !.cache[cache_key] = onchain,
                                         !._sync_num_of_calls = @ - 1],
                   result |-> onchain, item |-> None, chain_calls |-> 1]
        ELSE LET result == self.cache[cache_key]
             IN  [self |-> [self EXCEPT !._batch = None],
                  result |-> result,
                  item |-> IF Truthy(self._batch) THEN [item EXCEPT !.result = result]
                           ELSE None,
                  chain_calls |-> 0]

\* Batch.__init__: an empty web3 batch of requests and no output items.
Batch == [batch |-> <<>>, output |-> <<>>]

\* Batch.add for a view getter of the contract named c: the item joins the
\* output; its call joins the web3 batch unless the cache answered it.
Batch_add(self, cs, c, contract_function, args) ==
    LET r == call_view_func(batch_or_get_cache(cs[c], BatchStruct), contract_function, args, None)
        is_empty_cached_result == r.result.type = "BatchStruct"
        item == IF is_empty_cached_result THEN r.item
                ELSE [r.item EXCEPT !.result = r.result]
    IN  [self |-> [batch |-> IF is_empty_cached_result
                             THEN Append(self.batch, item.func_obj) ELSE self.batch,
                   output |-> Append(self.output, item)],
         contracts |-> [cs EXCEPT ![c] = r.self]]

\* queue = list(filter(lambda item: item.result is None, self.output)): the
\* items are the objects of the output, here their places in it.
RECURSIVE Batch_queue(_, _)
Batch_queue(output, j) ==
    IF j > Len(output) THEN <<>>
    ELSE (IF output[j].result = None THEN <<j>> ELSE <<>>) \o Batch_queue(output, j + 1)

\* self.batch.execute(): the chain's answer to each request, in the order
\* the requests were added.
Batch_responses(batch, onchain) ==
    [i \in 1 .. Len(batch) |-> onchain[batch[i].address][batch[i].v]]

\* cache_key = hash(tuple(item.args+(item.func_name+'_data',))) of an item.
item_cache_key(item) == CacheKey(item.func_name.v, item.args.v)

\* The same loop giving the i-th answer to the i-th item of the output
\* instead of the i-th item of the queue.
RECURSIVE Batch_store_by_output_place(_, _, _, _, _)
Batch_store_by_output_place(output, cs, queue, res, i) ==
    IF i > Len(res) THEN [output |-> output, contracts |-> cs]
    ELSE LET item == output[i]
             c == item.contract.v
             cache_key == item_cache_key(item)
         IN  Batch_store_by_output_place([output EXCEPT ![i].result = res[i]],
                         [cs EXCEPT ![c].cache[cache_key] = res[i],
                                    ![c]._sync_num_of_calls = @ - 1],
                         queue, res, i + 1)

\* for i, data in enumerate(res): queue[i] gets the i-th answer, which is
\* also stored in its contract's cache under the key of call_view_func; the
\* contract's sync counter goes down by one.
RECURSIVE Batch_store(_, _, _, _, _)
Batch_store(output, cs, queue, res, i) ==
    IF i > Len(res) THEN [output |-> output, contracts |-> cs]
    ELSE LET item == output[queue[i]]
             c == item.contract.v
             cache_key == item_cache_key(item)
         IN  Batch_store([output EXCEPT ![queue[i]].result = res[i]],
                         [cs EXCEPT ![c].cache[cache_key] = res[i],
                                    ![c]._sync_num_of_calls = @ - 1],
                         queue, res, i + 1)

\* Batch.execute: the web3 batch is sent when an item has no result; the
\* results of all items are returned in the order of the output.
Batch_execute(self, cs, onchain) ==
    LET queue == Batch_queue(self.output, 1)
        r == IF queue # <<>>
             THEN Batch_store(self.output, cs, queue, Batch_responses(self.batch, onchain), 1)
             ELSE [output |-> self.output, contracts |-> cs]
    IN  [self |-> [self EXCEPT !.output = r.output],
         contracts |-> r.contracts,
         result |-> [j \in 1 .. Len(r.output) |-> r.output[j].result]]

\* A run of view calls on one contract object, in order, outside any batch.
RECURSIVE call_views(_, _, _)
call_views(self, keys, onchain) ==
    IF keys = <<>> THEN self
    ELSE call_views(call_view_func(self, Head(keys).f, Head(keys).args, onchain[Head(keys)]).self,
                    Tail(keys), onchain)

\* What the chain answers to the view calls: the pool's slot0, the ticks at
\* the position's bounds (any other tick is uninitialized: all zero), the
\* two global accumulators; the position manager's positions(position_id),
\* the wallet's balance of one position and its token id; the factory's pool
\* address.
PoolViews(pd, s0, lo, hi, g0, g1) ==
    [k \in PoolKeys |->
        IF k.f = "slot0" THEN PyDict(s0)
        ELSE IF k.f = "feeGrowthGlobal0X128" THEN PyInt(g0)
        ELSE IF k.f = "feeGrowthGlobal1X128" THEN PyInt(g1)
        ELSE IF k.args = <<pd.tickLower>> THEN PyDict(lo)
        ELSE IF k.args = <<pd.tickUpper>> THEN PyDict(hi)
        ELSE PyDict([feeGrowthOutside0X128 |-> 0, feeGrowthOutside1X128 |-> 0])]
PositionManagerViews(pd) ==
    [k \in PositionManagerKeys |->
        IF k.f = "positions" THEN PyDict(pd)
        ELSE IF k.f = "balanceOf" THEN PyInt(1)
        ELSE PyInt(position_id)]
FactoryViews == [k \in FactoryKeys |-> PyStr("pool")]

\* A contract object whose cache holds the chain's answers for keys.
Loaded(contract_address, views, keys) ==
    [Contract(contract_address) EXCEPT
        !.cache = [k \in CacheKeys |-> IF k \in keys THEN views[k] ELSE None]]

\* The state after get_list_of_positions and refresh: the position is listed,
\* its record and the five pool values it reads are cached as the chain
\* holds them, no sync is pending.
Preloaded(pd, s0, lo, hi, g0, g1) ==
    /\ position_data = pd
    /\ all_positions = {position_id}
    /\ chain = [pool |-> PoolViews(pd, s0, lo, hi, g0, g1),
                position_manager |-> PositionManagerViews(pd),
                factory |-> FactoryViews,
                block_number |-> 0, logs |-> {0}]
    /\ contracts =
         [pool |-> Loaded("pool", PoolViews(pd, s0, lo, hi, g0, g1),
                          {CacheKey("slot0", <<>>), CacheKey("feeGrowthGlobal0X128", <<>>),
                           CacheKey("feeGrowthGlobal1X128", <<>>),
                           CacheKey("ticks", <<pd.tickLower>>),
                           CacheKey("ticks", <<pd.tickUpper>>)}),
          position_manager |-> Loaded("position_manager", PositionManagerViews(pd),
                                      PositionManagerKeys),
          factory |-> Loaded("factory", FactoryViews, FactoryKeys)]

\* The view calls of the valuation operations, in the order the source makes them.
Slot0Call == <<CacheKey("slot0", <<>>)>>
FeeCalls ==
    <<CacheKey("slot0", <<>>),
      CacheKey("ticks", <<position_data.tickLower>>),
      CacheKey("ticks", <<position_data.tickUpper>>),
      CacheKey("feeGrowthGlobal0X128", <<>>),
      CacheKey("feeGrowthGlobal1X128", <<>>)>>

\* _sync_num_of_calls goes down by one with every call sent to the chain and
\* has no lower limit; the model follows it down to -MaxSyncDebt.
SyncDebtBounded == pool._sync_num_of_calls > -MaxSyncDebt

\* What an operation of the position leaves alone besides the results.
position_fields == <<position_data, creation_date, all_positions, decimals0, decimals1>>
world == <<chain, now>>

\* ----------------------------------------------------------- fee accrual
\* The same with a strict comparison: the upper tick itself taken as inside.
tick_upper_fee_growth_above_strict(fee_growth_global, outside, tick_upper, tick_current) ==
    IF tick_current > tick_upper THEN fee_growth_global - outside ELSE outside

\* if tick_current >= tick_upper: global - outside, else: outside.
tick_upper_fee_growth_above(fee_growth_global, outside, tick_upper, tick_current) ==
    IF tick_current >= tick_upper THEN fee_growth_global - outside ELSE outside

\* if tick_current >= tick_lower: outside, else: global - outside.
tick_lower_fee_growth_below(fee_growth_global, outside, tick_lower, tick_current) ==
    IF tick_current >= tick_lower THEN outside ELSE fee_growth_global - outside

\* fr_t1: Decimal subtraction, which does not wrap.
fr_t1(fee_growth_global, below, above) == fee_growth_global - below - above

\* The same without the liquidity factor.
uncollected_fees_adjusted_no_liquidity(liquidity, fr, fee_growth_inside_last, decimals) ==
    RDiv(RDiv(RInt(fr - fee_growth_inside_last), RInt(Q128)), RInt(Pow(10, decimals)))

\* liquidity * (fr_t1 - fee_growth_inside_last) / 2**128 / Decimal(10**decimals)
uncollected_fees_adjusted(liquidity, fr, fee_growth_inside_last, decimals) ==
    RDiv(RDiv(RInt(liquidity * (fr - fee_growth_inside_last)), RInt(Q128)),
         RInt(Pow(10, decimals)))

_calculate_fees(fee_growth_global0, fee_growth_global1, fee_growth0_low, fee_growth0_high, fee_growth1_low, fee_growth1_high, fee_growth_inside0, fee_growth_inside1, liquidity, d0, d1, tick_lower, tick_upper, tick_current) ==
    LET above0 == tick_upper_fee_growth_above(fee_growth_global0, fee_growth0_high,
                                              tick_upper, tick_current)
        above1 == tick_upper_fee_growth_above(fee_growth_global1, fee_growth1_high,
                                              tick_upper, tick_current)
        below0 == tick_lower_fee_growth_below(fee_growth_global0, fee_growth0_low,
                                              tick_lower, tick_current)
        below1 == tick_lower_fee_growth_below(fee_growth_global1, fee_growth1_low,
                                              tick_lower, tick_current)
        fr_t1_0 == fr_t1(fee_growth_global0, below0, above0)
        fr_t1_1 == fr_t1(fee_growth_global1, below1, above1)
    IN  [fr_t1_0 |-> fr_t1_0,
         fr_t1_1 |-> fr_t1_1,
         fee0 |-> uncollected_fees_adjusted(liquidity, fr_t1_0, fee_growth_inside0, d0),
         fee1 |-> uncollected_fees_adjusted(liquidity, fr_t1_1, fee_growth_inside1, d1)]

\* The fees of the position from what the five getters of the pool object
\* self returned.
total_fees_collected(self) ==
    LET slot0_ == cached(self, "slot0", <<>>)
        tick_low_ == cached(self, "ticks", <<position_data.tickLower>>)
        tick_high_ == cached(self, "ticks", <<position_data.tickUpper>>)
        fee_growth_global0 == cached(self, "feeGrowthGlobal0X128", <<>>)
        fee_growth_global1 == cached(self, "feeGrowthGlobal1X128", <<>>)
    IN  _calculate_fees(
            fee_growth_global0, fee_growth_global1,
            tick_low_.feeGrowthOutside0X128, tick_high_.feeGrowthOutside0X128,
            tick_low_.feeGrowthOutside1X128, tick_high_.feeGrowthOutside1X128,
            position_data.feeGrowthInside0LastX128, position_data.feeGrowthInside1LastX128,
            position_data.liquidity, decimals0, decimals1,
            position_data.tickLower, position_data.tickUpper, slot0_.tick)

\* The five pool getters run first (each through call_view_func), then the
\* fees are computed from what they returned.
get_total_fees_collected ==
    /\ position_id \in all_positions
    /\ SyncDebtBounded
    /\ LET pool_ == call_views(pool, FeeCalls, chain.pool)
       IN  /\ contracts' = [contracts EXCEPT !.pool = pool_]
           /\ ret_fees' = << total_fees_collected(pool_) >>
    /\ UNCHANGED <<position_fields, world>>
    /\ UNCHANGED <<ret_locked, ret_active, ret_closed, ret_range, ret_apy, ret_apy_legacy,
                   ret_init_date, ret_view>>
    /\ UNCHANGED ops

\* ------------------------------------------------- fee-accrual specification
\* Fee-growth values as the chain reports them: any value in [0, 2**256).
FeeGrowthGlobalValues0 == {100, 1000}
FeeGrowthOutsideValues0 == {0, 100, 200}
FeeGrowthLastValues0 == {0, 700, 1000}
FeeGrowthGlobalValues1 == {100, 1000}
FeeGrowthOutsideValues1 == {100, 1000}
FeeGrowthLastValues1 == {0, 1000}

\* One slot0 per current tick (the fee computation reads slot0.tick only).
FeeSlot0Values ==
    { s \in Slot0Values : \A o \in Slot0Values : o.tick = s.tick => s.sqrtPriceX96 <= o.sqrtPriceX96 }

NoRets ==
    /\ ret_fees = <<>>
    /\ ret_locked = <<>>
    /\ ret_active = <<>>
    /\ ret_closed = <<>>
    /\ ret_range = <<>>
    /\ ret_apy = <<>>
    /\ ret_apy_legacy = <<>>
    /\ ret_init_date = <<>>
    /\ ret_view = <<>>

\* No batch open, no operation started, nothing signed or broadcast.
NoOps ==
    /\ ret_refresh = <<>>
    /\ open_batch = None
    /\ ret_batch = <<>>
    /\ txs = <<>>
    /\ ret_op = <<>>
    /\ pc = [at |-> "idle", i |-> 0]
    /\ signed = <<>>
    /\ network = <<>>
    /\ receipts = <<>>
    /\ key_reads = 0
    /\ ret_ticks = <<>>

TickValues ==
    [feeGrowthOutside0X128 : FeeGrowthOutsideValues0,
     feeGrowthOutside1X128 : FeeGrowthOutsideValues1]

InitFees ==
    /\ \E tl \in Ticks, tu \in Ticks, l \in {0, MaxLiquidity},
          last0 \in FeeGrowthLastValues0, last1 \in FeeGrowthLastValues1,
          s0 \in FeeSlot0Values, lo \in TickValues, hi \in TickValues,
          g0 \in FeeGrowthGlobalValues0, g1 \in FeeGrowthGlobalValues1 :
            /\ tl < tu
            /\ Preloaded([liquidity |-> l, tickLower |-> tl, tickUpper |-> tu,
                          feeGrowthInside0LastX128 |-> last0,
                          feeGrowthInside1LastX128 |-> last1], s0, lo, hi, g0, g1)
    /\ creation_date = None
    /\ now = 0
    /\ decimals0 \in {0, MaxDecimals}
    /\ decimals1 \in {0, MaxDecimals}
    /\ NoRets
    /\ NoOps

NextFees == get_total_fees_collected

SpecFees == InitFees /\ [][NextFees]_vars

\* -------------------------------------------------------- locked amounts
\* The same with the branch bodies of the two out-of-range regions exchanged.
_calculate_amounts_swapped(liquidity, sqrt_price_x96, sqrt_price_upper_x96, sqrt_price_lower_x96) ==
    LET sqrt_price == RDiv(sqrt_price_x96, RInt(Q96))
        sqrt_price_upper == RDiv(sqrt_price_upper_x96, RInt(Q96))
        sqrt_price_lower == RDiv(sqrt_price_lower_x96, RInt(Q96))
        L == RInt(liquidity)
    IN  IF RLe(sqrt_price, sqrt_price_lower)
        THEN [amount0 |-> RZero,
              amount1 |-> RMul(L, RSub(sqrt_price_upper, sqrt_price_lower))]
        ELSE IF RLe(sqrt_price_upper, sqrt_price)
        THEN [amount0 |-> RDiv(RMul(L, RSub(sqrt_price_upper, sqrt_price_lower)),
                               RMul(sqrt_price_upper, sqrt_price_lower)),
              amount1 |-> RZero]
        ELSE [amount0 |-> RDiv(RMul(L, RSub(sqrt_price_upper, sqrt_price)),
                               RMul(sqrt_price_upper, sqrt_price)),
              amount1 |-> RMul(L, RSub(sqrt_price, sqrt_price_lower))]

\* The same without the clamp at the upper bound: above the range amount1
\* keeps following the current price.
_calculate_amounts_unclamped(liquidity, sqrt_price_x96, sqrt_price_upper_x96, sqrt_price_lower_x96) ==
    LET sqrt_price == RDiv(sqrt_price_x96, RInt(Q96))
        sqrt_price_upper == RDiv(sqrt_price_upper_x96, RInt(Q96))
        sqrt_price_lower == RDiv(sqrt_price_lower_x96, RInt(Q96))
        L == RInt(liquidity)
    IN  IF RLe(sqrt_price, sqrt_price_lower)
        THEN [amount0 |-> RDiv(RMul(L, RSub(sqrt_price_upper, sqrt_price_lower)),
                               RMul(sqrt_price_upper, sqrt_price_lower)),
              amount1 |-> RZero]
        ELSE IF RLe(sqrt_price_upper, sqrt_price)
        THEN [amount0 |-> RZero,
              amount1 |-> RMul(L, RSub(sqrt_price, sqrt_price_lower))]
        ELSE [amount0 |-> RDiv(RMul(L, RSub(sqrt_price_upper, sqrt_price)),
                               RMul(sqrt_price_upper, sqrt_price)),
              amount1 |-> RMul(L, RSub(sqrt_price, sqrt_price_lower))]

\* The same without the branch for a price at or below the lower bound.
_calculate_amounts_no_lower_branch(liquidity, sqrt_price_x96, sqrt_price_upper_x96, sqrt_price_lower_x96) ==
    LET sqrt_price == RDiv(sqrt_price_x96, RInt(Q96))
        sqrt_price_upper == RDiv(sqrt_price_upper_x96, RInt(Q96))
        sqrt_price_lower == RDiv(sqrt_price_lower_x96, RInt(Q96))
        L == RInt(liquidity)
    IN  IF RLe(sqrt_price_upper, sqrt_price)
        THEN [amount0 |-> RZero,
              amount1 |-> RMul(L, RSub(sqrt_price_upper, sqrt_price_lower))]
        ELSE [amount0 |-> RDiv(RMul(L, RSub(sqrt_price_upper, sqrt_price)),
                               RMul(sqrt_price_upper, sqrt_price)),
              amount1 |-> RMul(L, RSub(sqrt_price, sqrt_price_lower))]

\* The same with the liquidity factor missing above the range.
_calculate_amounts_no_liquidity(liquidity, sqrt_price_x96, sqrt_price_upper_x96, sqrt_price_lower_x96) ==
    LET sqrt_price == RDiv(sqrt_price_x96, RInt(Q96))
        sqrt_price_upper == RDiv(sqrt_price_upper_x96, RInt(Q96))
        sqrt_price_lower == RDiv(sqrt_price_lower_x96, RInt(Q96))
        L == RInt(liquidity)
    IN  IF RLe(sqrt_price, sqrt_price_lower)
        THEN [amount0 |-> RDiv(RMul(L, RSub(sqrt_price_upper, sqrt_price_lower)),
                               RMul(sqrt_price_upper, sqrt_price_lower)),
              amount1 |-> RZero]
        ELSE IF RLe(sqrt_price_upper, sqrt_price)
        THEN [amount0 |-> RZero,
              amount1 |-> RSub(sqrt_price_upper, sqrt_price_lower)]
        ELSE [amount0 |-> RDiv(RMul(L, RSub(sqrt_price_upper, sqrt_price)),
                               RMul(sqrt_price_upper, sqrt_price)),
              amount1 |-> RMul(L, RSub(sqrt_price, sqrt_price_lower))]

\* The three sqrt-price arguments arrive scaled by 2**96 (the current one an
\* int, the bounds floats) and are divided by 2**96 first.
_calculate_amounts(liquidity, sqrt_price_x96, sqrt_price_upper_x96, sqrt_price_lower_x96) ==
    LET sqrt_price == RDiv(sqrt_price_x96, RInt(Q96))
        sqrt_price_upper == RDiv(sqrt_price_upper_x96, RInt(Q96))
        sqrt_price_lower == RDiv(sqrt_price_lower_x96, RInt(Q96))
        L == RInt(liquidity)
    IN  IF RLe(sqrt_price, sqrt_price_lower)
        THEN \* all in token0
             [amount0 |-> RDiv(RMul(L, RSub(sqrt_price_upper, sqrt_price_lower)),
                               RMul(sqrt_price_upper, sqrt_price_lower)),
              amount1 |-> RZero]
        ELSE IF RLe(sqrt_price_upper, sqrt_price)
        THEN \* all in token1
             [amount0 |-> RZero,
              amount1 |-> RMul(L, RSub(sqrt_price_upper, sqrt_price_lower))]
        ELSE \* mixed
             [amount0 |-> RDiv(RMul(L, RSub(sqrt_price_upper, sqrt_price)),
                               RMul(sqrt_price_upper, sqrt_price)),
              amount1 |-> RMul(L, RSub(sqrt_price, sqrt_price_lower))]

\* 1.0001 ** (tick / 2) * (2**96)
TickToSqrtPriceX96(tick) == RMul(TickToSqrtPrice(tick), RInt(Q96))

\* The locked amounts of the position from what get_slot0 of the pool object
\* self returned.
total_locked_amount(self) ==
    LET slot0_ == cached(self, "slot0", <<>>)
        sqrt_price_lower_x96 == TickToSqrtPriceX96(position_data.tickLower)
        sqrt_price_upper_x96 == TickToSqrtPriceX96(position_data.tickUpper)
        amounts == _calculate_amounts(position_data.liquidity, RInt(slot0_.sqrtPriceX96),
                                      sqrt_price_upper_x96, sqrt_price_lower_x96)
    IN  [amount0 |-> amounts.amount0,
         amount1 |-> amounts.amount1,
         token0_amount |-> RDiv(amounts.amount0, RInt(Pow(10, decimals0))),
         token1_amount |-> RDiv(amounts.amount1, RInt(Pow(10, decimals1)))]

get_total_locked_amount ==
    /\ position_id \in all_positions
    /\ LET pool_ == call_views(pool, Slot0Call, chain.pool)
       IN  /\ contracts' = [contracts EXCEPT !.pool = pool_]
           /\ ret_locked' = << total_locked_amount(pool_) >>
    /\ UNCHANGED <<position_fields, world>>
    /\ UNCHANGED <<ret_fees, ret_active, ret_closed, ret_range, ret_apy, ret_apy_legacy,
                   ret_init_date, ret_view>>
    /\ UNCHANGED ops

\* ------------------------------------------------------- price and status
\* The same without the square: the sqrt price taken for the price.
get_pool_price_unsquared(self, token1_adjusted) ==
    LET sqrtPriceX96 == cached(self, "slot0", <<>>).sqrtPriceX96
        price == Rat(sqrtPriceX96, Q96)
    IN  IF ~token1_adjusted THEN price
        ELSE RDiv(price, PyPow(10, decimals1 - decimals0))

\* UniswapV3Pool.get_pool_price: (sqrtPriceX96 / 2**96) ** 2, divided by
\* 10 ** (decimals1 - decimals0) when token1_adjusted; self is the pool
\* object after the get_slot0 call the method starts with.
get_pool_price(self, token1_adjusted) ==
    LET sqrtPriceX96 == cached(self, "slot0", <<>>).sqrtPriceX96
        price == RMul(Rat(sqrtPriceX96, Q96), Rat(sqrtPriceX96, Q96))
    IN  IF ~token1_adjusted THEN price
        ELSE RDiv(price, PyPow(10, decimals1 - decimals0))

\* The same with the decimals of the two tokens exchanged.
price_range_decimals_exchanged ==
    LET price_lower == TickToPrice(position_data.tickLower)
        price_upper == TickToPrice(position_data.tickUpper)
        decimals_diff == decimals0 - decimals1
    IN  << RDiv(price_lower, PyPow(10, decimals_diff)),
           RDiv(price_upper, PyPow(10, decimals_diff)) >>

\* The pair get_price_range returns, as a sequence <<lower, upper>>.
price_range ==
    LET price_lower == TickToPrice(position_data.tickLower)
        price_upper == TickToPrice(position_data.tickUpper)
        decimals_diff == decimals1 - decimals0
    IN  << RDiv(price_lower, PyPow(10, decimals_diff)),
           RDiv(price_upper, PyPow(10, decimals_diff)) >>

get_price_range ==
    /\ position_id \in all_positions
    /\ ret_range' = << price_range >>
    /\ UNCHANGED <<position_fields, contracts, world>>
    /\ UNCHANGED <<ret_fees, ret_locked, ret_active, ret_closed, ret_apy, ret_apy_legacy,
                   ret_init_date, ret_view>>
    /\ UNCHANGED ops

\* The same with the test written as the negation of is_active.
is_closed_not_active ==
    /\ position_id \in all_positions
    /\ ret_closed' = << ~( /\ position_data.liquidity > 0
                           /\ RLt(price_range[1], get_pool_price(pool, TRUE))
                           /\ RLt(get_pool_price(pool, TRUE), price_range[2]) ) >>
    /\ UNCHANGED <<position_fields, contracts, world>>
    /\ UNCHANGED <<ret_fees, ret_locked, ret_active, ret_range, ret_apy, ret_apy_legacy,
                   ret_init_date, ret_view>>
    /\ UNCHANGED ops

is_closed ==
    /\ position_id \in all_positions
    /\ ret_closed' = << position_data.liquidity = 0 >>
    /\ UNCHANGED <<position_fields, contracts, world>>
    /\ UNCHANGED <<ret_fees, ret_locked, ret_active, ret_range, ret_apy, ret_apy_legacy,
                   ret_init_date, ret_view>>
    /\ UNCHANGED ops

\* The same with inclusive comparisons.
is_active_inclusive ==
    /\ position_id \in all_positions
    /\ IF ~(position_data.liquidity > 0)
       THEN /\ ret_active' = << FALSE >>
            /\ UNCHANGED contracts
       ELSE LET pool_ == call_views(pool, Slot0Call, chain.pool)
                to_token1_price == get_pool_price(pool_, TRUE)
                to_token1_price_lower == price_range[1]
                to_token1_price_upper == price_range[2]
            IN  /\ contracts' = [contracts EXCEPT !.pool = pool_]
                /\ ret_active' = << /\ RLe(to_token1_price_lower, to_token1_price)
                                    /\ RLe(to_token1_price, to_token1_price_upper) >>
    /\ UNCHANGED <<position_fields, world>>
    /\ UNCHANGED <<ret_fees, ret_locked, ret_closed, ret_range, ret_apy, ret_apy_legacy,
                   ret_init_date, ret_view>>
    /\ UNCHANGED ops

is_active ==
    /\ position_id \in all_positions
    /\ IF ~(position_data.liquidity > 0)
       THEN /\ ret_active' = << FALSE >>
            /\ UNCHANGED contracts
       ELSE LET pool_ == call_views(pool, Slot0Call, chain.pool)
                to_token1_price == get_pool_price(pool_, TRUE)
                to_token1_price_lower == price_range[1]
                to_token1_price_upper == price_range[2]
            IN  /\ contracts' = [contracts EXCEPT !.pool = pool_]
                /\ ret_active' = << /\ RLt(to_token1_price_lower, to_token1_price)
                                    /\ RLt(to_token1_price, to_token1_price_upper) >>
    /\ UNCHANGED <<position_fields, world>>
    /\ UNCHANGED <<ret_fees, ret_locked, ret_closed, ret_range, ret_apy, ret_apy_legacy,
                   ret_init_date, ret_view>>
    /\ UNCHANGED ops

\* ---------------------------------------------------- valuation specification
\* Any position with tickLower < tickUpper against any pool price; the fee
\* accumulators are not read by these operations.
InitValuation ==
    /\ \E tl \in Ticks, tu \in Ticks, l \in Liquidities, s0 \in Slot0Values :
            /\ tl < tu
            /\ Preloaded([liquidity |-> l, tickLower |-> tl, tickUpper |-> tu,
                          feeGrowthInside0LastX128 |-> 0,
                          feeGrowthInside1LastX128 |-> 0], s0,
                         [feeGrowthOutside0X128 |-> 0, feeGrowthOutside1X128 |-> 0],
                         [feeGrowthOutside0X128 |-> 0, feeGrowthOutside1X128 |-> 0], 0, 0)
    /\ creation_date = None
    /\ now = 0
    /\ decimals0 \in Decimals
    /\ decimals1 \in Decimals
    /\ NoRets
    /\ NoOps

NextValuation ==
    \/ get_total_locked_amount
    \/ get_price_range
    \/ is_closed
    \/ is_active

SpecValuation == InitValuation /\ [][NextValuation]_vars

\* -------------------------------------------------------------------- APY
\* 365*24*60*60
SecondsPerYear == DaysPerYear * SecondsPerDay

\* apy = 0; if total_amount != 0: apy = total_fees / total_amount * years_portion * 100
position_apy(total_amount, total_fees, years_portion) ==
    IF ~REq(total_amount, RZero)
    THEN RMul(RMul(RDiv(total_fees, total_amount), years_portion), RInt(100))
    ELSE RZero

\* The value of the position and of its fees in token1, at the price given.
total_in_token1(token0_amount, token1_amount, price) ==
    RAdd(RMul(token0_amount, price), token1_amount)

\* UniswapV3Position.calculate_position_apy (src/entity): the locked amounts,
\* the fees and the price are read through the pool's getters; the age is
\* taken only when a creation date is known.  365*24*60*60 divided by an age
\* of 0 seconds raises ZeroDivisionError; the view calls made before it stay.
calculate_position_apy ==
    /\ position_id \in all_positions
    /\ SyncDebtBounded
    /\ LET pool_ == call_views(pool, Slot0Call \o FeeCalls \o Slot0Call, chain.pool)
           locked == total_locked_amount(pool_)
           fees == total_fees_collected(pool_)
           price == get_pool_price(pool_, TRUE)
           total_amount == total_in_token1(locked.token0_amount, locked.token1_amount, price)
           total_fees == total_in_token1(fees.fee0, fees.fee1, price)
           date_diff == now - creation_date.v
       IN  /\ contracts' = [contracts EXCEPT !.pool = pool_]
           /\ ret_apy' =
                << IF Truthy(creation_date) /\ date_diff = 0
                   THEN [raised |-> "ZeroDivisionError"]
                   ELSE LET years_portion == IF Truthy(creation_date)
                                             THEN Rat(SecondsPerYear, date_diff) ELSE RZero
                            total_days == IF Truthy(creation_date)
                                          THEN date_diff \div SecondsPerDay ELSE 0
                        IN  [raised |-> "",
                             apy |-> position_apy(total_amount, total_fees, years_portion),
                             total_days |-> total_days,
                             total_amount |-> total_amount,
                             total_fees |-> total_fees] >>
    /\ UNCHANGED <<position_fields, world>>
    /\ UNCHANGED <<ret_fees, ret_locked, ret_active, ret_closed, ret_range, ret_apy_legacy,
                   ret_init_date, ret_view>>
    /\ UNCHANGED ops

\* UniswapV3Position.calculate_position_apy of the revision in
\* src/uniswap_v3_position.py (the one src/main.py runs): the amounts and the
\* fees come from the stored position and pool data, the price from a fresh
\* slot0 call; the age is taken unconditionally, so a creation date of None
\* raises TypeError.
legacy_calculate_position_apy ==
    /\ position_id \in all_positions
    /\ LET locked == total_locked_amount(pool)
           fees == total_fees_collected(pool)
           sqrtPriceX96 == chain.pool[CacheKey("slot0", <<>>)].v.sqrtPriceX96
           price == RDiv(RMul(Rat(sqrtPriceX96, Q96), Rat(sqrtPriceX96, Q96)),
                         PyPow(10, decimals1 - decimals0))
           total_amount == total_in_token1(locked.token0_amount, locked.token1_amount, price)
           total_fees == total_in_token1(fees.fee0, fees.fee1, price)
           date_diff == now - creation_date.v
       IN  ret_apy_legacy' =
                << IF creation_date = None THEN [raised |-> "TypeError"]
                   ELSE IF date_diff = 0 THEN [raised |-> "ZeroDivisionError"]
                   ELSE [raised |-> "",
                         apy |-> position_apy(total_amount, total_fees,
                                              Rat(SecondsPerYear, date_diff)),
                         total_days |-> date_diff \div SecondsPerDay,
                         total_amount |-> total_amount,
                         total_fees |-> total_fees] >>
    /\ UNCHANGED <<position_fields, contracts, world>>
    /\ UNCHANGED <<ret_fees, ret_locked, ret_active, ret_closed, ret_range, ret_apy,
                   ret_init_date, ret_view>>
    /\ UNCHANGED ops

\* ------------------------------------------------------- APY specification
\* The clock of the host; a creation date is the timestamp of a block, which
\* the clock has reached.
Times == 0 .. MaxTime
CreationDates == {None} \cup {PyDatetime(t) : t \in Times}

ApyFeeGrowthGlobalValues == {100, 1000}

InitApy ==
    /\ \E tl \in Ticks, tu \in Ticks, l \in {0, MaxLiquidity}, s0 \in FeeSlot0Values,
          g0 \in ApyFeeGrowthGlobalValues :
            /\ tl < tu
            /\ Preloaded([liquidity |-> l, tickLower |-> tl, tickUpper |-> tu,
                          feeGrowthInside0LastX128 |-> 0,
                          feeGrowthInside1LastX128 |-> 0], s0,
                         [feeGrowthOutside0X128 |-> 0, feeGrowthOutside1X128 |-> 0],
                         [feeGrowthOutside0X128 |-> 0, feeGrowthOutside1X128 |-> 0], g0, 100)
    /\ now \in Times
    /\ creation_date \in CreationDates
    /\ Truthy(creation_date) => creation_date.v <= now
    /\ decimals0 \in {0, MaxDecimals}
    /\ decimals1 \in {0, MaxDecimals}
    /\ NoRets
    /\ NoOps

NextApy ==
    \/ calculate_position_apy
    \/ legacy_calculate_position_apy

SpecApy == InitApy /\ [][NextApy]_vars

\* ------------------------------------------- malformed-input specification
\* Position records as mocked or test data can hold them: the lower tick at
\* or above the upper one, or a negative liquidity.
Malformed(pd) == pd.tickLower >= pd.tickUpper \/ pd.liquidity < 0

InitMalformed ==
    /\ \E tl \in Ticks, tu \in Ticks, l \in (-MaxLiquidity) .. MaxLiquidity, s0 \in Slot0Values :
         LET pd == [liquidity |-> l, tickLower |-> tl, tickUpper |-> tu,
                    feeGrowthInside0LastX128 |-> 0,
                    feeGrowthInside1LastX128 |-> 0]
         IN  /\ Malformed(pd)
             /\ Preloaded(pd, s0,
                          [feeGrowthOutside0X128 |-> 0, feeGrowthOutside1X128 |-> 0],
                          [feeGrowthOutside0X128 |-> 0, feeGrowthOutside1X128 |-> 0], 100, 100)
    /\ creation_date = None
    /\ now = 0
    /\ decimals0 = 0
    /\ decimals1 = 0
    /\ NoRets
    /\ NoOps

NextMalformed ==
    \/ get_total_locked_amount
    \/ get_total_fees_collected
    \/ is_closed
    \/ is_active

SpecMalformed == InitMalformed /\ [][NextMalformed]_vars

\* ------------------------------------------------- view-cache specification
\* A getter of the pool called on its own: get_slot0, get_ticks(tick),
\* get_feeGrowthGlobal0X128, get_feeGrowthGlobal1X128, each one
\* call_view_func.  The result records, besides the value returned, what the
\* cache held and what the sync counter was when the call was made, and the
\* number of chain calls the call issued.
pool_getter(k) ==
    /\ SyncDebtBounded
    /\ LET r == call_view_func(pool, k.f, k.args, chain.pool[k])
       IN  /\ contracts' = [contracts EXCEPT !.pool = r.self]
           /\ ret_view' = << [key |-> k, result |-> r.result, chain_calls |-> r.chain_calls,
                              stored |-> pool.cache[k],
                              sync_num_of_calls |-> pool._sync_num_of_calls] >>
    /\ UNCHANGED <<position_fields, world>>
    /\ UNCHANGED <<ret_fees, ret_locked, ret_active, ret_closed, ret_range, ret_apy,
                   ret_apy_legacy, ret_init_date>>
    /\ UNCHANGED ops

\* The values feeGrowthGlobal0X128 takes on the chain: 0 until the first
\* swap paying a fee in token0, growing afterwards.
CacheFeeGrowthValues == {0, 100}

\* A block is mined: swaps in it move the pool's token0 fee accumulator.
ChainUpdate ==
    /\ \E g0 \in CacheFeeGrowthValues :
          /\ g0 > chain.pool[CacheKey("feeGrowthGlobal0X128", <<>>)].v
          /\ chain' = [chain EXCEPT !.pool[CacheKey("feeGrowthGlobal0X128", <<>>)] = PyInt(g0)]
    /\ UNCHANGED <<position_fields, contracts, now, rets>>
    /\ UNCHANGED ops

\* The getters followed: one returning an int, one returning a dict.
GetterKeys == {CacheKey("feeGrowthGlobal0X128", <<>>), CacheKey("slot0", <<>>)}

InitCache ==
    /\ \E g0 \in CacheFeeGrowthValues, s0 \in FeeSlot0Values :
          /\ s0.tick = 0
          /\ Preloaded([liquidity |-> MaxLiquidity, tickLower |-> -MaxTick,
                        tickUpper |-> MaxTick,
                        feeGrowthInside0LastX128 |-> 0,
                        feeGrowthInside1LastX128 |-> 0], s0,
                       [feeGrowthOutside0X128 |-> 0, feeGrowthOutside1X128 |-> 0],
                       [feeGrowthOutside0X128 |-> 0, feeGrowthOutside1X128 |-> 0], g0, 100)
    /\ now = MaxTime
    /\ creation_date \in {None, PyDatetime(0)}
    /\ decimals0 = 0
    /\ decimals1 = 0
    /\ NoRets
    /\ NoOps

NextCache ==
    \/ \E k \in GetterKeys : pool_getter(k)
    \/ ChainUpdate
    \/ get_total_locked_amount
    \/ get_total_fees_collected
    \/ get_price_range
    \/ is_active
    \/ is_closed
    \/ calculate_position_apy

SpecCache == InitCache /\ [][NextCache]_vars

\* --------------------------------------------------- position lifecycle
\* block["timestamp"] of a block, as datetime.utcfromtimestamp reads it: the
\* model's clock ticks once per block.
BlockTimestamp(block_number) == block_number

\* range(from_block, latest_block, chunk_size)
ChunkStarts(from_block, latest_block, chunk_size) ==
    {start_block \in from_block .. (latest_block - 1) :
        (start_block - from_block) % chunk_size = 0}

Min(S) == CHOOSE x \in S : \A y \in S : x <= y

\* The revision of get_deposit_init_date in src/uniswap_v3_position.py: no
\* early return, every call scans the logs again.
deposit_init_date_rescanning(self_creation_date, from_block, chunk_size, web3) ==
    LET latest_block == web3.block_number
        starts == ChunkStarts(from_block, latest_block, chunk_size)
        all_logs == {b \in web3.logs : \E start_block \in starts :
                        /\ start_block <= b
                        /\ b <= (IF start_block + chunk_size - 1 < latest_block
                                 THEN start_block + chunk_size - 1 ELSE latest_block)}
    IN  IF all_logs # {}
        THEN [value |-> PyDatetime(BlockTimestamp(Min(all_logs))),
              creation_date |-> PyDatetime(BlockTimestamp(Min(all_logs))),
              get_logs_calls |-> Cardinality(starts)]
        ELSE [value |-> None, creation_date |-> self_creation_date,
              get_logs_calls |-> Cardinality(starts)]

\* UniswapV3Position.get_deposit_init_date (src/entity): a creation date
\* already stored is returned at once; otherwise the Transfer logs of the
\* position to the wallet are read chunk by chunk from from_block up to the
\* latest block, and the timestamp of the block of the first log found is
\* stored and returned; with no log found nothing is stored and None is
\* returned.
deposit_init_date(self_creation_date, from_block, chunk_size, web3) ==
    IF Truthy(self_creation_date)
    THEN [value |-> self_creation_date, creation_date |-> self_creation_date,
          get_logs_calls |-> 0]
    ELSE LET latest_block == web3.block_number
             starts == ChunkStarts(from_block, latest_block, chunk_size)
             all_logs == {b \in web3.logs : \E start_block \in starts :
                             /\ start_block <= b
                             /\ b <= (IF start_block + chunk_size - 1 < latest_block
                                      THEN start_block + chunk_size - 1 ELSE latest_block)}
         IN  IF all_logs # {}
             THEN [value |-> PyDatetime(BlockTimestamp(Min(all_logs))),
                   creation_date |-> PyDatetime(BlockTimestamp(Min(all_logs))),
                   get_logs_calls |-> Cardinality(starts)]
             ELSE [value |-> None, creation_date |-> self_creation_date,
                   get_logs_calls |-> Cardinality(starts)]

\* The blocks a scan is started from: the first one and a late one.
FromBlocks == {0, MaxBlock - 1}
ChunkSizes == {1, MaxBlock + 1}

get_deposit_init_date(from_block, chunk_size) ==
    /\ position_id \in all_positions
    /\ LET r == deposit_init_date(creation_date, from_block, chunk_size, chain)
       IN  /\ creation_date' = r.creation_date
           /\ ret_init_date' = << [value |-> r.value, get_logs_calls |-> r.get_logs_calls,
                                   stored |-> creation_date, from_block |-> from_block] >>
    /\ UNCHANGED <<position_data, all_positions, decimals0, decimals1, contracts, world>>
    /\ UNCHANGED <<ret_fees, ret_locked, ret_active, ret_closed, ret_range, ret_apy,
                   ret_apy_legacy, ret_view>>
    /\ UNCHANGED ops

\* The five pool values of a position, in the order refresh reads them.
RefreshCalls(pd) ==
    <<CacheKey("slot0", <<>>),
      CacheKey("ticks", <<pd.tickLower>>),
      CacheKey("ticks", <<pd.tickUpper>>),
      CacheKey("feeGrowthGlobal0X128", <<>>),
      CacheKey("feeGrowthGlobal1X128", <<>>)>>

\* The position kept as it was listed, without reading the chain again.
position_as_listed(cs, onchain) == [position_data |-> position_data, contracts |-> cs]

\* UniswapV3Position.refresh on the contract objects cs: the position record
\* is read again from the chain, then the five pool values, the ticks being
\* those of the new record.
position_refresh(cs, onchain) ==
    LET k == CacheKey("positions", <<position_id>>)
        r == call_view_func(sync(cs.position_manager, 1), k.f, k.args,
                            onchain.position_manager[k])
        pool_ == call_views(sync(cs.pool, 5), RefreshCalls(r.result.v), onchain.pool)
    IN  [position_data |-> r.result.v,
         contracts |-> [cs EXCEPT !.position_manager = r.self, !.pool = pool_]]

\* UniswapV3Position.refresh called on its own; it returns the position.
refresh ==
    /\ position_id \in all_positions
    /\ LET self == position_refresh(contracts, chain)
       IN  /\ position_data' = self.position_data
           /\ contracts' = self.contracts
           /\ ret_refresh' = << [position_data |-> self.position_data,
                                 pool |-> self.contracts.pool,
                                 position_manager |-> self.contracts.position_manager] >>
    /\ UNCHANGED <<creation_date, all_positions, decimals0, decimals1, world, rets>>
    /\ UNCHANGED <<open_batch, ret_batch, txs, ret_op, pc, signed, network, receipts,
                   key_reads, ret_ticks>>

\* UniswapV3PositionManager.get_position_ids: balanceOf, then
\* tokenOfOwnerByIndex for every index below it (the wallet holds one
\* position, so index 0 at most).
get_position_ids(self, onchain) ==
    LET n == call_view_func(self, "balanceOf", <<wallet_address>>,
                            onchain[CacheKey("balanceOf", <<wallet_address>>)])
        t == call_view_func(n.self, "tokenOfOwnerByIndex", <<wallet_address, 0>>,
                            onchain[CacheKey("tokenOfOwnerByIndex", <<wallet_address, 0>>)])
    IN  IF n.result.v > 0
        THEN [self |-> t.self, position_ids |-> <<t.result.v>>]
        ELSE [self |-> n.self, position_ids |-> <<>>]

\* The pool preload of get_list_of_positions: slot0, the two global
\* accumulators, the two ticks, added to one batch in this order.
RECURSIVE Batch_add_all(_, _, _, _)
Batch_add_all(self, cs, c, keys) ==
    IF keys = <<>> THEN [self |-> self, contracts |-> cs]
    ELSE LET r == Batch_add(self, cs, c, Head(keys).f, Head(keys).args)
         IN  Batch_add_all(r.self, r.contracts, c, Tail(keys))

PreloadCalls(pd) ==
    <<CacheKey("slot0", <<>>),
      CacheKey("feeGrowthGlobal0X128", <<>>),
      CacheKey("feeGrowthGlobal1X128", <<>>),
      CacheKey("ticks", <<pd.tickLower>>),
      CacheKey("ticks", <<pd.tickUpper>>)>>

\* The first batch of get_list_of_positions: the position record is queued
\* with a sync of the position manager when the position is new or the data
\* is to be refreshed, and the batch is executed.
preload_position_data(cs, needed, onchain) ==
    LET k == CacheKey("positions", <<position_id>>)
        b == IF needed
             THEN Batch_add(Batch, [cs EXCEPT !.position_manager = sync(@, 1)],
                            "position_manager", k.f, k.args)
             ELSE [self |-> Batch, contracts |-> cs]
    IN  Batch_execute(b.self, b.contracts, onchain).contracts

\* UniswapV3Factory.get_pool: the pool address is a view call of the factory;
\* the pool object is the one the registry of pool instances holds for it.
get_pool(cs, onchain) ==
    LET k == CacheKey("getPool", <<token0, token1, fee>>)
    IN  [cs EXCEPT !.factory = call_view_func(@, k.f, k.args, onchain.factory[k]).self]

\* UniswapV3Position.get_instance followed by get_deposit_init_date: a new
\* position object, its record read from the position manager, no creation
\* date until the logs are scanned from history_from_block.
get_instance(cs, history_from_block, onchain) ==
    LET k == CacheKey("positions", <<position_id>>)
        r == call_view_func(cs.position_manager, k.f, k.args, onchain.position_manager[k])
    IN  [contracts |-> get_pool([cs EXCEPT !.position_manager = r.self], onchain),
         position_data |-> r.result.v,
         creation_date |-> deposit_init_date(None, history_from_block, 5000, onchain).creation_date]

\* if refresh_data: position.position_data = self.position_manager.get_position_data(position_id)
refresh_position_data(st, refresh_data, onchain) ==
    LET k == CacheKey("positions", <<position_id>>)
        r == call_view_func(st.contracts.position_manager, k.f, k.args,
                            onchain.position_manager[k])
    IN  IF refresh_data
        THEN [st EXCEPT !.contracts.position_manager = r.self, !.position_data = r.result.v]
        ELSE st

\* The second batch of get_list_of_positions: the five pool values.
preload_pool(st, onchain) ==
    LET b == Batch_add_all(Batch, st.contracts, "pool", PreloadCalls(st.position_data))
    IN  [st EXCEPT !.contracts = Batch_execute(b.self, b.contracts, onchain).contracts]

\* UniswapManager.get_list_of_positions for the one wallet and its one
\* position.  all_positions is what the positions cache holds; a position not
\* in it is built (get_instance) and its creation date looked up from
\* history_from_block; a position in it is kept as it is and given the pool
\* of the registry again.  With refresh_data the position record is read
\* again (through the batch preload).  The pool values are preloaded in a
\* second batch.
list_of_positions_loaded(st) ==
    [contracts |-> st.contracts, all_positions |-> {position_id},
     position_data |-> st.position_data, creation_date |-> st.creation_date]

list_of_positions_preloaded(cs, new, pd, cd, refresh_data, history_from_block, onchain) ==
    list_of_positions_loaded(
        preload_pool(refresh_position_data(IF new
                                           THEN get_instance(cs, history_from_block, onchain)
                                           ELSE [contracts |-> get_pool(cs, onchain),
                                                 position_data |-> pd,
                                                 creation_date |-> cd],
                                           refresh_data, onchain),
                     onchain))

list_of_positions_of(ids, cs0, known, pd, cd, refresh_data, history_from_block, onchain) ==
    IF ids.position_ids = <<>>
    THEN [contracts |-> [cs0 EXCEPT !.position_manager = ids.self],
          all_positions |-> {}, position_data |-> pd, creation_date |-> cd]
    ELSE list_of_positions_preloaded(
             preload_position_data([cs0 EXCEPT !.position_manager = ids.self],
                                   position_id \notin known \/ refresh_data, onchain),
             position_id \notin known, pd, cd, refresh_data, history_from_block, onchain)

list_of_positions(cs0, known, pd, cd, refresh_data, history_from_block, onchain) ==
    list_of_positions_of(get_position_ids(cs0.position_manager, onchain.position_manager),
                         cs0, known, pd, cd, refresh_data, history_from_block, onchain)

\* get_list_of_positions called on its own.
get_list_of_positions_returns(st) ==
    /\ contracts' = st.contracts
    /\ all_positions' = st.all_positions
    /\ position_data' = st.position_data
    /\ creation_date' = st.creation_date
    /\ UNCHANGED <<decimals0, decimals1, world, rets>>
    /\ UNCHANGED ops

get_list_of_positions(refresh_data, history_from_block) ==
    /\ SyncDebtBounded
    /\ get_list_of_positions_returns(
           list_of_positions(contracts, all_positions, position_data, creation_date,
                             refresh_data, history_from_block, chain))

\* A block is mined; it may hold another Transfer of the position to the wallet.
NewBlock ==
    /\ chain.block_number < MaxBlock
    /\ \E transfer \in BOOLEAN :
          chain' = [chain EXCEPT !.block_number = @ + 1,
                                 !.logs = IF transfer THEN @ \cup {chain.block_number + 1}
                                          ELSE @]
    /\ now' = BlockTimestamp(chain.block_number + 1)
    /\ UNCHANGED <<position_fields, contracts, rets>>
    /\ UNCHANGED ops

\* A process starts: the contract objects are new, the positions cache is
\* empty or holds the position with the creation date found earlier, if any.
\* The position was minted to the wallet in block 0.
InitLifecycle ==
    /\ position_data = [liquidity |-> MaxLiquidity, tickLower |-> -MaxTick,
                        tickUpper |-> MaxTick,
                        feeGrowthInside0LastX128 |-> 0,
                        feeGrowthInside1LastX128 |-> 0]
    /\ \E s0 \in FeeSlot0Values :
          /\ s0.tick = 0
          /\ chain = [pool |-> PoolViews(position_data, s0,
                                 [feeGrowthOutside0X128 |-> 0, feeGrowthOutside1X128 |-> 0],
                                 [feeGrowthOutside0X128 |-> 0, feeGrowthOutside1X128 |-> 0],
                                 100, 100),
                      position_manager |-> PositionManagerViews(position_data),
                      factory |-> FactoryViews,
                      block_number |-> 0, logs |-> {0}]
    /\ contracts = [pool |-> Contract("pool"),
                    position_manager |-> Contract("position_manager"),
                    factory |-> Contract("factory")]
    /\ \/ all_positions = {} /\ creation_date = None
       \/ all_positions = {position_id} /\ creation_date \in {None, PyDatetime(BlockTimestamp(0))}
    /\ now = BlockTimestamp(0)
    /\ decimals0 = 0
    /\ decimals1 = 0
    /\ NoRets
    /\ NoOps

NextLifecycle ==
    \/ \E from_block \in FromBlocks, chunk_size \in ChunkSizes :
          get_deposit_init_date(from_block, chunk_size)
    \/ \E refresh_data \in BOOLEAN, history_from_block \in FromBlocks :
          get_list_of_positions(refresh_data, history_from_block)
    \/ refresh
    \/ NewBlock
    \/ calculate_position_apy
    \/ get_total_fees_collected

SpecLifecycle == InitLifecycle /\ [][NextLifecycle]_vars

\* ------------------------------------------------- refresh specification
\* A listed position whose cached values are those of an earlier block: the
\* token0 fee accumulator may have been 0 then and may grow later.
InitRefresh ==
    /\ \E g0 \in CacheFeeGrowthValues, s0 \in FeeSlot0Values, l \in 1 .. MaxLiquidity :
          /\ s0.tick = 0
          /\ Preloaded([liquidity |-> l, tickLower |-> -MaxTick,
                        tickUpper |-> MaxTick,
                        feeGrowthInside0LastX128 |-> 0,
                        feeGrowthInside1LastX128 |-> 0], s0,
                       [feeGrowthOutside0X128 |-> 0, feeGrowthOutside1X128 |-> 0],
                       [feeGrowthOutside0X128 |-> 0, feeGrowthOutside1X128 |-> 0], g0, 100)
    /\ now = MaxTime
    /\ creation_date \in {None, PyDatetime(0)}
    /\ decimals0 = 0
    /\ decimals1 = 0
    /\ NoRets
    /\ NoOps

NextRefresh ==
    \/ refresh
    \/ ChainUpdate
    \/ get_total_fees_collected
    \/ get_total_locked_amount
    \/ is_active
    \/ calculate_position_apy

SpecRefresh == InitRefresh /\ [][NextRefresh]_vars

\* --------------------------------------------------- batch specification
\* The most calls added to one batch.
MaxBatch == 3

\* The getters added to the batches followed: two of the pool, one of the
\* position manager.
BatchKeys ==
    [pool |-> {CacheKey("feeGrowthGlobal0X128", <<>>), CacheKey("feeGrowthGlobal1X128", <<>>)},
     position_manager |-> {CacheKey("positions", <<position_id>>)}]
BatchContracts == {"pool", "position_manager"}

\* The values an earlier block left in the caches: nothing, a 0, or a value
\* that is no longer the chain's.
StaleFeeGrowthValues == {None, PyInt(0), PyInt(50)}
StalePositions ==
    {None, PyDict([liquidity |-> 0, tickLower |-> -MaxTick, tickUpper |-> MaxTick,
                   feeGrowthInside0LastX128 |-> 0, feeGrowthInside1LastX128 |-> 0])}

InitBatch ==
    /\ \E c0 \in StaleFeeGrowthValues, c1 \in StaleFeeGrowthValues, cp \in StalePositions,
          g0 \in CacheFeeGrowthValues, s0 \in FeeSlot0Values :
          LET pd == [liquidity |-> MaxLiquidity, tickLower |-> -MaxTick,
                     tickUpper |-> MaxTick,
                     feeGrowthInside0LastX128 |-> 0, feeGrowthInside1LastX128 |-> 0]
              none == [feeGrowthOutside0X128 |-> 0, feeGrowthOutside1X128 |-> 0]
          IN  /\ s0.tick = 0
              /\ position_data = pd
              /\ all_positions = {position_id}
              /\ chain = [pool |-> PoolViews(pd, s0, none, none, g0, 100),
                          position_manager |-> PositionManagerViews(pd),
                          factory |-> FactoryViews,
                          block_number |-> 0, logs |-> {0}]
              /\ contracts =
                   [pool |-> [Contract("pool") EXCEPT
                                 !.cache[CacheKey("feeGrowthGlobal0X128", <<>>)] = c0,
                                 !.cache[CacheKey("feeGrowthGlobal1X128", <<>>)] = c1],
                    position_manager |->
                        [Contract("position_manager") EXCEPT
                            !.cache[CacheKey("positions", <<position_id>>)] = cp],
                    factory |-> Loaded("factory", FactoryViews, FactoryKeys)]
    /\ now = MaxTime
    /\ creation_date = None
    /\ decimals0 = 0
    /\ decimals1 = 0
    /\ NoRets
    /\ NoOps

batch_fields == <<ret_refresh, txs, ret_op, pc, signed, network, receipts, key_reads, ret_ticks>>

\* with Batch() as batch:
Batch_enter ==
    /\ open_batch = None
    /\ ~Called(ret_batch)
    /\ open_batch' = Batch
    /\ UNCHANGED <<position_fields, contracts, world, rets, ret_batch, batch_fields>>

\* batch.add(getter, *args), the getter being one of the contract named c,
\* called on c.sync() when with_sync.
add(c, k, with_sync) ==
    /\ open_batch # None
    /\ ~Called(ret_batch)
    /\ Len(open_batch.output) < MaxBatch
    /\ LET cs == IF with_sync THEN [contracts EXCEPT ![c] = sync(@, 1)] ELSE contracts
           r == Batch_add(open_batch, cs, c, k.f, k.args)
       IN  /\ open_batch' = r.self
           /\ contracts' = r.contracts
    /\ UNCHANGED <<position_fields, world, rets, ret_batch, batch_fields>>

\* batch.execute()
execute ==
    /\ open_batch # None
    /\ ~Called(ret_batch)
    /\ LET r == Batch_execute(open_batch, contracts, chain)
       IN  /\ open_batch' = r.self
           /\ contracts' = r.contracts
           /\ ret_batch' = << r.result >>
    /\ UNCHANGED <<position_fields, world, rets, batch_fields>>

\* Batch.__exit__: clear(); the with block is left.
Batch_exit ==
    /\ open_batch # None
    /\ Called(ret_batch)
    /\ open_batch' = None
    /\ UNCHANGED <<position_fields, contracts, world, rets, ret_batch, batch_fields>>

NextBatch ==
    \/ Batch_enter
    \/ \E c \in BatchContracts, with_sync \in BOOLEAN : \E k \in BatchKeys[c] : add(c, k, with_sync)
    \/ execute
    \/ Batch_exit
    \/ ChainUpdate

SpecBatch == InitBatch /\ [][NextBatch]_vars

\* ------------------------------------------------ tick range of a new position
\* class PoolFee, in the order of the enumeration, and class PoolTickSpacing
\* by the fee tier of the same name.
PoolFee == <<100, 500, 3000, 10000>>
PoolTickSpacing ==
    [fee_tier \in {100, 500, 3000, 10000} |->
        CASE fee_tier = 100 -> 1
          [] fee_tier = 500 -> 10
          [] fee_tier = 3000 -> 60
          [] fee_tier = 10000 -> 200]

\* The logarithms of get_ticks are followed to a hundredth of a tick.
LogScale == 100
\* -math.log(1 - 15/100, 1.0001) and math.log(1 + 15/100, 1.0001), in
\* hundredths: 1625.27 and 1397.69.
LogOneMinusDeviation == 162527
LogOnePlusDeviation == 139769
\* price_deviation_percents of open_position.
price_deviation_percents == 15

\* int(x) of a float x = a / d: the fraction is dropped, towards zero.
int(a, d) == IF a >= 0 THEN a \div d ELSE -((-a) \div d)

\* a - a % b in C, whose remainder has the sign of a.
c_remainder(a, b) == IF a >= 0 THEN a % b ELSE -((-a) % b)

\* a % b of Python, b > 0: the remainder is never negative.
py_mod(a, b) == a % b

\* UniswapV3PositionManager.get_ticks for a pool of fee tier fee_tier whose
\* price has the logarithm log_price / LogScale to the base 1.0001:
\* math.log(price * (1 -+ 15/100), 1.0001) is that logarithm moved by the
\* logarithm of the factor.
get_ticks(fee_tier, log_price, deviation_percent) ==
    LET tick_spacing == PoolTickSpacing[fee_tier]
        tick_lower == int(log_price - LogOneMinusDeviation, LogScale)
        tick_upper == int(log_price + LogOnePlusDeviation, LogScale)
    IN  [tick_lower |-> tick_lower - py_mod(tick_lower, tick_spacing),
         tick_upper |-> tick_upper - py_mod(tick_upper, tick_spacing)]

\* The pools followed: every fee tier, prices from far below 1 to far above.
MaxLogPriceSteps == 20
LogPriceStep == 12345
LogPrices == { i * LogPriceStep : i \in (-MaxLogPriceSteps) .. MaxLogPriceSteps }

InitTicks ==
    /\ \E fee_tier \in {PoolFee[i] : i \in 1 .. Len(PoolFee)}, log_price \in LogPrices :
          chain = [fee |-> fee_tier, log_price |-> log_price]
    /\ position_data = [liquidity |-> 0, tickLower |-> 0, tickUpper |-> 0,
                        feeGrowthInside0LastX128 |-> 0, feeGrowthInside1LastX128 |-> 0]
    /\ all_positions = {}
    /\ contracts = [pool |-> Contract("pool"),
                    position_manager |-> Contract("position_manager"),
                    factory |-> Contract("factory")]
    /\ now = 0
    /\ creation_date = None
    /\ decimals0 = 0
    /\ decimals1 = 0
    /\ NoRets
    /\ NoOps

\* position_manager.get_ticks(pool, price_deviation_percents) of open_position.
open_position_get_ticks ==
    /\ ~Called(ret_ticks)
    /\ ret_ticks' = << get_ticks(chain.fee, chain.log_price, price_deviation_percents) >>
    /\ UNCHANGED <<position_fields, contracts, world, rets>>
    /\ UNCHANGED <<ret_refresh, open_batch, ret_batch, txs, ret_op, pc, signed, network,
                   receipts, key_reads>>

NextTicks == open_position_get_ticks

SpecTicks == InitTicks /\ [][NextTicks]_vars

\* ----------------------------------------------------------- transactions
\* The wallet's transaction count when the operation starts: 0 .. MaxNonce.
MaxNonce == 1

\* Contract.set_nonce
set_nonce(self, nonce) == [self EXCEPT !._nonce = PyInt(nonce)]

\* A get_nonce that always asks the chain for the transaction count.
get_nonce_from_chain(self, onchain) == onchain.transaction_count

\* Contract.get_nonce: self._nonce if self._nonce else
\* web3.eth.get_transaction_count(wallet_address)
get_nonce(self, onchain) ==
    IF Truthy(self._nonce) THEN self._nonce.v ELSE onchain.transaction_count

\* contract.functions.<function>(<args>).build_transaction({"nonce":
\* self.get_nonce(wallet_address), ...}); value is the ETH sent along.
build_transaction(self, function, args, value, onchain) ==
    [to |-> self.contract_address, function |-> function, args |-> args,
     value |-> value, nonce |-> get_nonce(self, onchain)]

\* One entry of the list txs of an operation.
TxItem(tx, action) == [tx |-> tx, action |-> action]

\* UniswapV3PositionManager.decrease_liquidity, collect_all, burn
decrease_liquidity(self, position_id_, liquidity, onchain) ==
    build_transaction(self, "decreaseLiquidity",
                      [tokenId |-> position_id_, liquidity |-> liquidity], 0, onchain)
collect_all(self, position_id_, onchain) ==
    build_transaction(self, "collect", [tokenId |-> position_id_], 0, onchain)
burn(self, position_id_, onchain) ==
    build_transaction(self, "burn", [tokenId |-> position_id_], 0, onchain)

\* A Python float has 53 bits of mantissa; the model's has MantissaBits.
MantissaBits == 2
\* The binary exponents followed below 0 beyond the mantissa's.
MaxFloatShift == 7

\* a / b rounded to the nearest integer, the even one when two are as near.
round_half_even(a, b) ==
    LET q == a \div b
        r == a % b
    IN  IF 2 * r < b THEN q
        ELSE IF 2 * r > b THEN q + 1
        ELSE IF q % 2 = 0 THEN q ELSE q + 1

\* a / b of Python for ints a >= 0 and b > 0: the float nearest to the
\* quotient, as an exact fraction.  The exponent e is the one that leaves
\* MantissaBits bits before the binary point of (a / b) / 2^e.
true_div(a, b) ==
    IF a = 0 THEN RZero
    ELSE LET e == CHOOSE x \in (-(MantissaBits + MaxFloatShift)) .. (2 * MantissaBits + MaxFloatShift) :
                    IF x >= 0
                    THEN /\ Pow(2, MantissaBits - 1) * Pow(2, x) * b <= a
                         /\ a < Pow(2, MantissaBits) * Pow(2, x) * b
                    ELSE /\ Pow(2, MantissaBits - 1) * b <= a * Pow(2, -x)
                         /\ a * Pow(2, -x) < Pow(2, MantissaBits) * b
         IN  IF e >= 0
             THEN RInt(round_half_even(a, b * Pow(2, e)) * Pow(2, e))
             ELSE Rat(round_half_even(a * Pow(2, -e), b), Pow(2, -e))

\* int(liquidity*decrease_percents/100)
decreased_liquidity(liquidity, decrease_percents) ==
    LET x == true_div(liquidity * decrease_percents, 100)
    IN  int(x.n, x.d)

\* The position ids an operation is asked for: the wallet's and another.
PositionIds == {position_id, position_id + 1}

\* The state in which an operation leaves the position objects, the
\* contract objects and its list txs, and what it raised (None: nothing).
Built(st, cs, txs_, raised) ==
    [contracts |-> cs, all_positions |-> st.all_positions,
     position_data |-> st.position_data, creation_date |-> st.creation_date,
     txs |-> txs_, raised |-> raised]

\* The lookup that starts close_position, remove_liquidity and add_liqudity:
\* positions = self.get_list_of_positions(refresh_data=False).
lookup(onchain) ==
    list_of_positions(contracts, all_positions, position_data, creation_date, FALSE, 0, onchain)

\* The three transactions of close_position, at nonce, nonce + 1 and
\* nonce + 2: position_manager.set_nonce(nonce).decrease_liquidity(...), ...
close_txs(self, position_id_, liquidity, nonce, onchain) ==
    <<TxItem(decrease_liquidity(set_nonce(self, nonce), position_id_, liquidity, onchain),
             "Remove liquidity"),
      TxItem(collect_all(set_nonce(self, nonce + 1), position_id_, onchain),
             "Collect liquidity"),
      TxItem(burn(set_nonce(self, nonce + 2), position_id_, onchain), "Burn position")>>

\* close_position from liquidity = int(current_position.refresh()...) on.
close_refreshed(st, current_position, position_id_, onchain) ==
    IF current_position.position_data.liquidity = 0
    THEN Built([st EXCEPT !.position_data = current_position.position_data],
               current_position.contracts, <<>>, PyStr("already closed"))
    ELSE Built([st EXCEPT !.position_data = current_position.position_data],
               [current_position.contracts EXCEPT
                   !.position_manager =
                       set_nonce(@, get_nonce(current_position.contracts.position_manager,
                                              onchain) + 2)],
               close_txs(current_position.contracts.position_manager, position_id_,
                         current_position.position_data.liquidity,
                         get_nonce(current_position.contracts.position_manager, onchain),
                         onchain),
               None)

\* close_position from the search of the position in the list on.
close_listed(st, position_id_, onchain) ==
    IF position_id_ \notin st.all_positions
    THEN Built(st, st.contracts, <<>>, PyStr("doesn't exist"))
    ELSE close_refreshed(st, position_refresh(st.contracts, onchain), position_id_, onchain)

\* UniswapManager.close_position up to the list txs.
close_position_txs(position_id_, onchain) == close_listed(lookup(onchain), position_id_, onchain)

\* The two transactions of remove_liquidity, at nonce and nonce + 1.
remove_txs(self, position_id_, liquidity, nonce, onchain) ==
    <<TxItem(decrease_liquidity(set_nonce(self, nonce), position_id_, liquidity, onchain),
             "Remove liquidity"),
      TxItem(collect_all(set_nonce(self, nonce + 1), position_id_, onchain),
             "Collect liquidity")>>

\* remove_liquidity from liquidity = int(current_position.refresh()...) on.
remove_refreshed(st, current_position, position_id_, decrease_percents, onchain) ==
    IF current_position.position_data.liquidity = 0
    THEN Built([st EXCEPT !.position_data = current_position.position_data],
               current_position.contracts, <<>>, PyStr("already closed"))
    ELSE Built([st EXCEPT !.position_data = current_position.position_data],
               [current_position.contracts EXCEPT
                   !.position_manager =
                       set_nonce(@, get_nonce(current_position.contracts.position_manager,
                                              onchain) + 1)],
               remove_txs(current_position.contracts.position_manager, position_id_,
                          decreased_liquidity(current_position.position_data.liquidity,
                                              decrease_percents),
                          get_nonce(current_position.contracts.position_manager, onchain),
                          onchain),
               None)

\* remove_liquidity from the search of the position in the list on.
remove_listed(st, position_id_, decrease_percents, onchain) ==
    IF position_id_ \notin st.all_positions
    THEN Built(st, st.contracts, <<>>, PyStr("doesn't exist"))
    ELSE remove_refreshed(st, position_refresh(st.contracts, onchain), position_id_,
                          decrease_percents, onchain)

\* UniswapManager.remove_liquidity up to the list txs.
remove_liquidity_txs(position_id_, decrease_percents, onchain) ==
    IF decrease_percents <= 0 \/ decrease_percents > 100
    THEN Built([all_positions |-> all_positions, position_data |-> position_data,
                creation_date |-> creation_date], contracts, <<>>,
               PyStr("Decrease percents must be in range 1-100"))
    ELSE remove_listed(lookup(onchain), position_id_, decrease_percents, onchain)

\* The send flag handed on as it was given.
send_as_given(estimate, send) == send

\* The commands of cli.py pass `False if estimate else send` as send.
cli_send(estimate, send) == IF estimate THEN FALSE ELSE send

\* if raw: self.get_raw_txs(...) elif send: self.send_txs(...) else:
\* self.estimate_txs(...), unless the operation raised before.
dispatch(raised, send, raw) ==
    IF raised # None THEN [at |-> "raised", i |-> 0]
    ELSE IF raw THEN [at |-> "get_raw_txs", i |-> 1]
    ELSE IF send THEN [at |-> "send_txs", i |-> 1]
    ELSE [at |-> "estimate_txs", i |-> 1]

\* What an operation leaves in the state: the objects it touched, its list
\* txs, and in ret_op the command line, the wallet's transaction count it
\* started from and its locals.
operation(op, b, estimate, send, raw, locals) ==
    /\ pc.at = "idle"
    /\ contracts' = b.contracts
    /\ all_positions' = b.all_positions
    /\ position_data' = b.position_data
    /\ creation_date' = b.creation_date
    /\ txs' = b.txs
    /\ ret_op' = << [op |-> op, estimate |-> estimate, send |-> send, raw |-> raw,
                     raised |-> b.raised, n |-> chain.transaction_count,
                     listed |-> position_data, locals |-> locals] >>
    /\ pc' = dispatch(b.raised, cli_send(estimate, send), raw)
    /\ UNCHANGED <<decimals0, decimals1, world, rets>>
    /\ UNCHANGED <<ret_refresh, open_batch, ret_batch, signed, network, receipts,
                   key_reads, ret_ticks>>

\* The command close_position of cli.py.
close_position(position_id_, estimate, send, raw) ==
    operation("close_position", close_position_txs(position_id_, chain), estimate, send, raw,
              [position_id |-> position_id_])

\* The command remove_liquidity of cli.py.
remove_liquidity(position_id_, decrease_percents, estimate, send, raw) ==
    operation("remove_liquidity", remove_liquidity_txs(position_id_, decrease_percents, chain),
              estimate, send, raw,
              [position_id |-> position_id_, decrease_percents |-> decrease_percents])

sending_fields == <<position_fields, contracts, world, rets, ret_refresh, open_batch,
                    ret_batch, txs, ret_op, ret_ticks>>

\* The loop of send_txs moves on to the next transaction, or ends.
next_tx == IF pc.i < Len(txs) THEN [at |-> "send_txs", i |-> pc.i + 1]
           ELSE [at |-> "done", i |-> pc.i]

\* send_txs: contract.sign_and_send_tx(tx["tx"], wallet_address), that is
\* get_private_key, sign_transaction, send_raw_transaction; each may raise.
sign_and_send_tx(outcome) ==
    /\ pc.at = "send_txs"
    /\ key_reads' = IF outcome = "no key file" THEN key_reads ELSE key_reads + 1
    /\ signed' = IF outcome \in {"sent", "not sent"} THEN Append(signed, txs[pc.i].tx)
                 ELSE signed
    /\ network' = IF outcome = "sent" THEN Append(network, txs[pc.i].tx) ELSE network
    /\ pc' = IF outcome = "sent" THEN [at |-> "get_tx_receipt", i |-> pc.i]
             ELSE [at |-> "raised", i |-> pc.i]
    /\ UNCHANGED <<sending_fields, receipts>>

\* send_txs without the wait for the receipt.
get_tx_receipt_not_awaited(outcome) ==
    /\ pc.at = "get_tx_receipt"
    /\ pc' = next_tx
    /\ UNCHANGED <<sending_fields, key_reads, signed, network, receipts>>

\* send_txs: contract.get_tx_receipt(tx_hash) waits until the transaction
\* is mined, or raises (TimeExhausted).
get_tx_receipt(outcome) ==
    /\ pc.at = "get_tx_receipt"
    /\ receipts' = IF outcome = "mined" THEN Append(receipts, txs[pc.i].tx) ELSE receipts
    /\ pc' = IF outcome = "mined" THEN next_tx ELSE [at |-> "raised", i |-> pc.i]
    /\ UNCHANGED <<sending_fields, key_reads, signed, network>>

\* get_raw_txs: sign_and_get_raw_tx for one transaction of the list, that
\* is get_private_key and sign_transaction; the raw transaction is printed.
sign_and_get_raw_tx(outcome) ==
    /\ pc.at = "get_raw_txs"
    /\ key_reads' = IF outcome = "no key file" THEN key_reads ELSE key_reads + 1
    /\ signed' = IF outcome = "signed" THEN Append(signed, txs[pc.i].tx) ELSE signed
    /\ pc' = IF outcome # "signed" THEN [at |-> "raised", i |-> pc.i]
             ELSE IF pc.i < Len(txs) THEN [at |-> "get_raw_txs", i |-> pc.i + 1]
             ELSE [at |-> "done", i |-> pc.i]
    /\ UNCHANGED <<sending_fields, network, receipts>>

\* estimate_txs: the gas of every transaction is estimated and printed;
\* nothing is signed.
estimate_txs ==
    /\ pc.at = "estimate_txs"
    /\ pc' = [at |-> "done", i |-> Len(txs)]
    /\ UNCHANGED <<sending_fields, key_reads, signed, network, receipts>>

SendOutcomes == {"sent", "not sent", "not signed", "no key file"}
ReceiptOutcomes == {"mined", "timed out"}
RawOutcomes == {"signed", "not signed", "no key file"}

\* ------------------------------------------------ funding an operation
\* The largest token amount of a command.
MaxAmount == 2

\* WETH9.deposit, ERC20.approve
deposit(self, amount, onchain) ==
    build_transaction(self, "deposit", [wad |-> amount], amount, onchain)
approve(self, spender_address, amount, onchain) ==
    build_transaction(self, "approve", [spender |-> spender_address, amount |-> amount],
                      0, onchain)

\* The locals of an operation while it builds its list txs: the contract
\* objects, txs, nonce, what was raised, and the amounts the balance and
\* the allowance were checked against.
Building(cs, nonce) ==
    [cs |-> cs, txs |-> <<>>, nonce |-> nonce, raised |-> None,
     balance_checked |-> <<>>, allowance_checked |-> <<>>, locals |-> None]

\* if eth_balance < amount: raise UniswapManagerError("Insufficient balance")
check_eth_balance(b, amount, onchain) ==
    IF b.raised # None THEN b
    ELSE IF onchain.eth_balance < amount
    THEN [b EXCEPT !.raised = PyStr("Insufficient balance"),
                   !.balance_checked = Append(@, amount)]
    ELSE [b EXCEPT !.balance_checked = Append(@, amount)]

\* check_balance_and_deposit_token and what its caller does with the
\* result: txs.append(deposit_weth_tx); nonce += 1.
check_balance_and_deposit_token(b, token, token_amount, onchain) ==
    IF b.raised # None THEN b
    ELSE IF onchain.balanceOf[token] < token_amount
    THEN IF onchain.symbol[token] = "WETH"
         THEN [b EXCEPT !.cs.weth9 = set_nonce(@, b.nonce),
                        !.txs = Append(@, TxItem(deposit(set_nonce(b.cs.weth9, b.nonce),
                                                         token_amount - onchain.balanceOf[token],
                                                         onchain),
                                                 "Wrap ETH to WETH")),
                        !.nonce = @ + 1,
                        !.balance_checked = Append(@, token_amount)]
         ELSE [b EXCEPT !.raised = PyStr("Insufficient balance"),
                        !.balance_checked = Append(@, token_amount)]
    ELSE [b EXCEPT !.balance_checked = Append(@, token_amount)]

\* check_allowance_and_approve and what its caller does with the result.
check_allowance_and_approve(b, spender, token, amount, onchain) ==
    IF b.raised # None THEN b
    ELSE IF onchain.allowance[token] < amount
    THEN [b EXCEPT !.cs[token] = set_nonce(@, b.nonce),
                   !.txs = Append(@, TxItem(approve(set_nonce(b.cs[token], b.nonce),
                                                    spender, amount, onchain),
                                            "Approve spender")),
                   !.nonce = @ + 1,
                   !.allowance_checked = Append(@, amount)]
    ELSE [b EXCEPT !.allowance_checked = Append(@, amount)]

\* ------------------------------------------------------------------- swap
\* UniswapV3Router.swap_out_min builds exactInputSingle, swap_in_max builds
\* exactOutputSingle; with pass_value_for_in_token the input amount is sent
\* along as ETH.
swap_out_min(self, in_token, out_token, in_token_amount, out_token_amount_min, fee_tier, pass_value_for_in_token, onchain) ==
    build_transaction(self, "exactInputSingle",
                      [tokenIn |-> in_token, tokenOut |-> out_token, fee |-> fee_tier,
                       amountIn |-> in_token_amount,
                       amountOutMinimum |-> out_token_amount_min],
                      IF pass_value_for_in_token THEN in_token_amount ELSE 0, onchain)
swap_in_max(self, in_token, out_token, in_token_amount_min, out_token_amount, fee_tier, pass_value_for_in_token, onchain) ==
    build_transaction(self, "exactOutputSingle",
                      [tokenIn |-> in_token, tokenOut |-> out_token, fee |-> fee_tier,
                       amountOut |-> out_token_amount,
                       amountInMaximum |-> in_token_amount_min],
                      IF pass_value_for_in_token THEN in_token_amount_min ELSE 0, onchain)

\* quotes = batch.execute(): the quoter's answer for the pool of every fee
\* tier, in the order of PoolFee; amount is quote[amount_key].
Quotes(onchain) == [i \in 1 .. Len(PoolFee) |-> onchain.quotes[PoolFee[i]]]

\* The selection loop taking a later quote that is as good as the best.
RECURSIVE select_quote_last_of_equals(_, _, _, _)
select_quote_last_of_equals(quotes, i, best, find_in_mode) ==
    IF i > Len(quotes) THEN best
    ELSE select_quote_last_of_equals(quotes, i + 1,
            IF best.best_quote = None
            THEN [best_quote |-> quotes[i], fee_tier |-> PoolFee[i]]
            ELSE IF find_in_mode /\ quotes[i].amount <= best.best_quote.amount
            THEN [best_quote |-> quotes[i], fee_tier |-> PoolFee[i]]
            ELSE IF ~find_in_mode /\ quotes[i].amount >= best.best_quote.amount
            THEN [best_quote |-> quotes[i], fee_tier |-> PoolFee[i]]
            ELSE best,
            find_in_mode)

\* for tier, quote in dict(zip(PoolFee, quotes)).items(): the first quote is
\* taken, a later one when it is strictly better.
RECURSIVE select_quote(_, _, _, _)
select_quote(quotes, i, best, find_in_mode) ==
    IF i > Len(quotes) THEN best
    ELSE select_quote(quotes, i + 1,
            IF best.best_quote = None
            THEN [best_quote |-> quotes[i], fee_tier |-> PoolFee[i]]
            ELSE IF find_in_mode /\ quotes[i].amount < best.best_quote.amount
            THEN [best_quote |-> quotes[i], fee_tier |-> PoolFee[i]]
            ELSE IF ~find_in_mode /\ quotes[i].amount > best.best_quote.amount
            THEN [best_quote |-> quotes[i], fee_tier |-> PoolFee[i]]
            ELSE best,
            find_in_mode)

\* swap from the balance check to the swap transaction; the amounts are
\* those after `in_token_amount = best_quote[amount_key]` or
\* `out_token_amount = best_quote[amount_key]`.
swap_funds(b, in_erc20, in_token_amount, use_eth, onchain) ==
    IF use_eth THEN check_eth_balance(b, in_token_amount, onchain)
    ELSE check_allowance_and_approve(
             check_balance_and_deposit_token(b, in_erc20, in_token_amount, onchain),
             "router", in_erc20, in_token_amount, onchain)

swap_tx(b, sel, in_erc20, out_erc20, in_token_amount, out_token_amount, find_in_mode, use_eth, onchain) ==
    IF find_in_mode
    THEN swap_out_min(set_nonce(b.cs.router, b.nonce), in_erc20, out_erc20,
                      in_token_amount, out_token_amount, sel.fee_tier, use_eth, onchain)
    ELSE swap_in_max(set_nonce(b.cs.router, b.nonce), in_erc20, out_erc20,
                     in_token_amount, out_token_amount, sel.fee_tier, use_eth, onchain)

swap_funded(b, sel, in_erc20, out_erc20, in_token_amount, out_token_amount, find_in_mode, use_eth, send, raw, onchain) ==
    IF b.raised # None
    THEN [b EXCEPT !.locals = [fee_tier |-> sel.fee_tier, best_quote |-> sel.best_quote,
                               in_token_amount |-> in_token_amount,
                               out_token_amount |-> out_token_amount]]
    ELSE [b EXCEPT
             !.cs.router = IF send \/ raw THEN set_nonce(@, b.nonce) ELSE @,
             !.txs = Append(@, [tx |-> IF send \/ raw
                                       THEN swap_tx(b, sel, in_erc20, out_erc20,
                                                    in_token_amount, out_token_amount,
                                                    find_in_mode, use_eth, onchain)
                                       ELSE None,
                                action |-> "Swap",
                                gas |-> sel.best_quote.gasEstimate]),
             !.locals = [fee_tier |-> sel.fee_tier, best_quote |-> sel.best_quote,
                         in_token_amount |-> in_token_amount,
                         out_token_amount |-> out_token_amount]]

swap_selected(sel, in_erc20, out_erc20, in_token_amount, out_token_amount, find_in_mode, use_eth, send, raw, cs, onchain) ==
    swap_funded(swap_funds(Building(cs, get_nonce(cs[in_erc20], onchain)),
                           in_erc20, in_token_amount, use_eth, onchain),
                sel, in_erc20, out_erc20, in_token_amount, out_token_amount,
                find_in_mode, use_eth, send, raw, onchain)

swap_quoted(sel, in_erc20, out_erc20, in_token_amount, out_token_amount, use_eth, send, raw, cs, onchain) ==
    swap_selected(sel, in_erc20, out_erc20,
                  IF out_token_amount # 0 THEN sel.best_quote.amount ELSE in_token_amount,
                  IF out_token_amount # 0 THEN out_token_amount ELSE sel.best_quote.amount,
                  out_token_amount # 0, use_eth, send, raw, cs, onchain)

\* UniswapManager.swap up to the list txs.
swap_txs(in_erc20, out_erc20, in_token_amount, out_token_amount, use_eth, send, raw, cs, onchain) ==
    IF in_erc20 = out_erc20
    THEN [Building(cs, 0) EXCEPT !.raised = PyStr("Tokens must be different")]
    ELSE IF onchain.symbol[in_erc20] # "WETH" /\ use_eth
    THEN [Building(cs, 0) EXCEPT !.raised = PyStr("Input token must be WETH to use ETH")]
    ELSE swap_quoted(select_quote(Quotes(onchain), 1,
                                  [best_quote |-> None, fee_tier |-> PoolFee[1]],
                                  out_token_amount # 0),
                     in_erc20, out_erc20, in_token_amount, out_token_amount,
                     use_eth, send, raw, cs, onchain)

\* An operation that leaves the positions alone.
positions_kept(b) ==
    [contracts |-> b.cs, all_positions |-> all_positions, position_data |-> position_data,
     creation_date |-> creation_date, txs |-> b.txs, raised |-> b.raised]

\* What ret_op keeps of the locals of an operation.
Locals(b) ==
    [balance_checked |-> b.balance_checked, allowance_checked |-> b.allowance_checked]

\* The command swap of cli.py; ret_op keeps the amounts it was given next
\* to the locals of UniswapManager.swap.
swap_command(b, in_token_amount, out_token_amount, use_eth, estimate, send, raw) ==
    operation("swap", positions_kept(b), estimate, send, raw,
              [locals |-> b.locals, balance_checked |-> b.balance_checked,
               allowance_checked |-> b.allowance_checked,
               in_token_amount |-> in_token_amount, out_token_amount |-> out_token_amount,
               use_eth |-> use_eth])

swap(in_erc20, out_erc20, in_token_amount, out_token_amount, use_eth, estimate, send, raw) ==
    swap_command(swap_txs(in_erc20, out_erc20, in_token_amount, out_token_amount, use_eth,
                          cli_send(estimate, send), raw, contracts, chain),
                 in_token_amount, out_token_amount, use_eth, estimate, send, raw)

\* ------------------------------------------- open_position, add_liqudity
\* The token amounts of open_position and add_liqudity are funded alike:
\* the ETH balance against amount0 when use_eth, the balance of every token
\* that is not paid in ETH, then the allowance of every such token for the
\* position manager.
is_eth_native(token, use_eth, onchain) == use_eth /\ onchain.symbol[token] = "WETH"

fund_balance(b, token, amount, use_eth, onchain) ==
    IF is_eth_native(token, use_eth, onchain) THEN b
    ELSE check_balance_and_deposit_token(b, token, amount, onchain)

fund_allowance(b, token, amount, use_eth, onchain) ==
    IF is_eth_native(token, use_eth, onchain) THEN b
    ELSE check_allowance_and_approve(b, "position_manager", token, amount, onchain)

funds(b, token0_, token1_, amount0, amount1, use_eth, onchain) ==
    fund_allowance(
        fund_allowance(
            fund_balance(
                fund_balance(IF use_eth THEN check_eth_balance(b, amount0, onchain) ELSE b,
                             token0_, amount0, use_eth, onchain),
                token1_, amount1, use_eth, onchain),
            token0_, amount0, use_eth, onchain),
        token1_, amount1, use_eth, onchain)

\* UniswapV3PositionManager.get_position_id: the first position of the
\* wallet in the pool of the two tokens and the fee tier, or None.
get_position_id(self, token0_address, token1_address, fee_tier, onchain) ==
    LET ids == get_position_ids(self, onchain.position_manager)
        k == CacheKey("positions", <<position_id>>)
    IN  IF ids.position_ids = <<>>
        THEN [self |-> ids.self, position_id |-> None]
        ELSE [self |-> call_view_func(ids.self, k.f, k.args, onchain.position_manager[k]).self,
              position_id |->
                  IF /\ onchain.position_pool.token0 = token0_address
                     /\ onchain.position_pool.token1 = token1_address
                     /\ onchain.position_pool.fee = fee_tier
                  THEN PyInt(ids.position_ids[1]) ELSE None]

\* UniswapV3PositionManager.open_position builds mint,
\* increase_liquidity builds increaseLiquidity; the amount of a token paid
\* in ETH is sent along as value.
position_manager_open_position(self, token0_, token1_, fee_, amount0, amount1, ticks, native0, native1, onchain) ==
    build_transaction(self, "mint",
                      [token0 |-> token0_, token1 |-> token1_, fee |-> fee_,
                       tickLower |-> ticks.tick_lower, tickUpper |-> ticks.tick_upper,
                       amount0Desired |-> amount0, amount1Desired |-> amount1],
                      IF native0 THEN amount0 ELSE IF native1 THEN amount1 ELSE 0, onchain)

increase_liquidity(self, position_id_, amount0, amount1, native0, native1, onchain) ==
    build_transaction(self, "increaseLiquidity",
                      [tokenId |-> position_id_,
                       amount0Desired |-> amount0, amount1Desired |-> amount1],
                      IF native0 THEN amount0 ELSE IF native1 THEN amount1 ELSE 0, onchain)

\* open_position from position_id = position_manager.get_position_id(...) on.
open_position_funded(b, found, token0_, token1_, amount0, amount1, fee_, use_eth, onchain) ==
    IF b.raised # None THEN b
    ELSE IF found.position_id # None
    THEN [b EXCEPT !.cs.position_manager = found.self,
                   !.raised = PyStr("Position already exists")]
    ELSE [b EXCEPT
             !.cs = [get_pool(b.cs, onchain) EXCEPT
                        !.position_manager = set_nonce(found.self, b.nonce)],
             !.txs = Append(@, TxItem(position_manager_open_position(
                                          set_nonce(found.self, b.nonce),
                                          token0_, token1_, fee_, amount0, amount1,
                                          get_ticks(fee_, onchain.log_price,
                                                    price_deviation_percents),
                                          is_eth_native(token0_, use_eth, onchain),
                                          is_eth_native(token1_, use_eth, onchain),
                                          onchain),
                                      "Create position")),
             !.nonce = @ + 1]

open_position_checked(b, token0_, token1_, amount0, amount1, fee_, use_eth, onchain) ==
    open_position_funded(b, get_position_id(b.cs.position_manager, token0_, token1_, fee_,
                                            onchain),
                         token0_, token1_, amount0, amount1, fee_, use_eth, onchain)

IsPoolFee(fee_) == \E i \in 1 .. Len(PoolFee) : PoolFee[i] = fee_

\* UniswapManager.open_position up to the list txs.
open_position_txs(token0_, token1_, amount0, amount1, fee_, use_eth, cs, onchain) ==
    IF token0_ = token1_
    THEN [Building(cs, 0) EXCEPT !.raised = PyStr("Tokens must be different")]
    ELSE IF ~IsPoolFee(fee_)
    THEN [Building(cs, 0) EXCEPT !.raised = PyStr("Invalid fee tier")]
    ELSE IF use_eth /\ onchain.symbol[token0_] # "WETH" /\ onchain.symbol[token1_] # "WETH"
    THEN [Building(cs, 0) EXCEPT
             !.raised = PyStr("Input or output token must be WETH to use ETH")]
    ELSE open_position_checked(
             funds(Building(cs, get_nonce(cs[token0_], onchain)),
                   token0_, token1_, amount0, amount1, use_eth, onchain),
             token0_, token1_, amount0, amount1, fee_, use_eth, onchain)

\* The command open_position of cli.py.
open_position_command(b, estimate, send, raw) ==
    operation("open_position", positions_kept(b), estimate, send, raw, Locals(b))

open_position(token0_, token1_, amount0, amount1, fee_, use_eth, estimate, send, raw) ==
    open_position_command(open_position_txs(token0_, token1_, amount0, amount1, fee_, use_eth,
                                            contracts, chain),
                          estimate, send, raw)

\* add_liqudity from inc_liq_tx = position_manager.set_nonce(nonce)... on.
add_liqudity_funded(b, token0_, token1_, amount0, amount1, position_id_, use_eth, onchain) ==
    IF b.raised # None THEN b
    ELSE [b EXCEPT
             !.cs.position_manager = set_nonce(@, b.nonce),
             !.txs = Append(@, TxItem(increase_liquidity(
                                          set_nonce(b.cs.position_manager, b.nonce),
                                          position_id_, amount0, amount1,
                                          is_eth_native(token0_, use_eth, onchain),
                                          is_eth_native(token1_, use_eth, onchain),
                                          onchain),
                                      "Increse liquidity for position")),
             !.nonce = @ + 1]

\* add_liqudity from the search of the position in the list on.
add_liqudity_listed(st, token0_, token1_, amount0, amount1, position_id_, use_eth, onchain) ==
    IF position_id_ \notin st.all_positions
    THEN [Building(st.contracts, 0) EXCEPT !.raised = PyStr("doesn't exist")]
    ELSE IF <<token0_, token1_>> # <<onchain.position_pool.token0, onchain.position_pool.token1>>
    THEN [Building(st.contracts, 0) EXCEPT !.raised = PyStr("Tokens for position are others")]
    ELSE add_liqudity_funded(
             funds(Building(st.contracts, get_nonce(st.contracts[token0_], onchain)),
                   token0_, token1_, amount0, amount1, use_eth, onchain),
             token0_, token1_, amount0, amount1, position_id_, use_eth, onchain)

\* add_liqudity after positions = self.get_list_of_positions(refresh_data=False).
add_liqudity_built(st, b) == Built(st, b.cs, b.txs, b.raised)
add_liqudity_looked_up(st, token0_, token1_, amount0, amount1, position_id_, use_eth, onchain) ==
    add_liqudity_built(st, add_liqudity_listed(st, token0_, token1_, amount0, amount1,
                                               position_id_, use_eth, onchain))

\* UniswapManager.add_liqudity up to the list txs.
add_liqudity_txs(token0_, token1_, amount0, amount1, position_id_, use_eth, onchain) ==
    IF token0_ = token1_
    THEN Built([all_positions |-> all_positions, position_data |-> position_data,
                creation_date |-> creation_date], contracts, <<>>,
               PyStr("Tokens must be different"))
    ELSE IF use_eth /\ onchain.symbol[token0_] # "WETH" /\ onchain.symbol[token1_] # "WETH"
    THEN Built([all_positions |-> all_positions, position_data |-> position_data,
                creation_date |-> creation_date], contracts, <<>>,
               PyStr("Input or output token must be WETH to use ETH"))
    ELSE add_liqudity_looked_up(lookup(onchain), token0_, token1_, amount0, amount1,
                                position_id_, use_eth, onchain)

\* The command add_liquidity of cli.py.
add_liqudity(token0_, token1_, amount0, amount1, position_id_, use_eth, estimate, send, raw) ==
    operation("add_liqudity",
              add_liqudity_txs(token0_, token1_, amount0, amount1, position_id_, use_eth,
                               chain),
              estimate, send, raw, [position_id |-> position_id_])

\* ------------------------------------------- position commands specification
\* The liquidity of the position on the chain: none, little, and two
\* amounts that a float of MantissaBits bits cannot hold.
FloatLiquidities == {0, 1, Pow(2, MantissaBits) + 1, Pow(2, MantissaBits + 1) - 1}
Percents == {-1, 0, 1, 50, 99, 100, 101}

\* The chain as a command finds it: the wallet's transaction count n, its
\* position (held or not) with liquidity l.
PositionChain(n, l, held) ==
    LET pd == [liquidity |-> l, tickLower |-> -MaxTick, tickUpper |-> MaxTick,
               feeGrowthInside0LastX128 |-> 0, feeGrowthInside1LastX128 |-> 0]
        none == [feeGrowthOutside0X128 |-> 0, feeGrowthOutside1X128 |-> 0]
    IN  [pool |-> PoolViews(pd, [sqrtPriceX96 |-> Q96, tick |-> 0], none, none, 100, 100),
         position_manager |->
             [PositionManagerViews(pd) EXCEPT
                 ![CacheKey("balanceOf", <<wallet_address>>)] = PyInt(IF held THEN 1 ELSE 0)],
         factory |-> FactoryViews,
         block_number |-> 0, logs |-> {0},
         transaction_count |-> n]

\* A command starts in a new process: new contract objects, nothing built
\* or sent; the "positions" cache file may hold the position as an earlier
\* run saw it, with the liquidity it had then.
InitPositionOps ==
    /\ \E n \in 0 .. MaxNonce, l \in FloatLiquidities, held \in BOOLEAN :
          chain = PositionChain(n, l, held)
    /\ \E l \in {0, 1} :
          position_data = [liquidity |-> l, tickLower |-> -MaxTick, tickUpper |-> MaxTick,
                           feeGrowthInside0LastX128 |-> 0, feeGrowthInside1LastX128 |-> 0]
    /\ all_positions \in {{}, {position_id}}
    /\ contracts = [pool |-> Contract("pool"),
                    position_manager |-> Contract("position_manager"),
                    factory |-> Contract("factory")]
    /\ now = 0
    /\ creation_date = None
    /\ decimals0 = 0
    /\ decimals1 = 0
    /\ NoRets
    /\ NoOps

NextPositionOps ==
    \/ \E position_id_ \in PositionIds, estimate \in BOOLEAN, send \in BOOLEAN, raw \in BOOLEAN :
          close_position(position_id_, estimate, send, raw)
    \/ \E position_id_ \in PositionIds, decrease_percents \in Percents,
          estimate \in BOOLEAN, send \in BOOLEAN, raw \in BOOLEAN :
          remove_liquidity(position_id_, decrease_percents, estimate, send, raw)
    \/ \E outcome \in SendOutcomes : sign_and_send_tx(outcome)
    \/ \E outcome \in ReceiptOutcomes : get_tx_receipt(outcome)
    \/ \E outcome \in RawOutcomes : sign_and_get_raw_tx(outcome)
    \/ estimate_txs

SpecPositionOps == InitPositionOps /\ [][NextPositionOps]_vars

\* ------------------------------------------------------------------- send
\* ERC20.transfer
transfer(self, to_address, amount, onchain) ==
    build_transaction(self, "transfer", [to |-> to_address, amount |-> amount], 0, onchain)

\* The transaction of send_eth: a plain transfer of value, its nonce the
\* wallet's transaction count.
eth_tx(receiver_address, amount, onchain) ==
    [to |-> receiver_address, function |-> "", args |-> [amount |-> amount],
     value |-> amount, nonce |-> onchain.transaction_count]

\* The command send of cli.py up to send_eth / send_token: it exits when
\* the amount is 0 or above the balance; otherwise one transaction is built.
send_txs_built(token, amount, onchain) ==
    IF amount = 0
    THEN [Building(contracts, 0) EXCEPT !.raised = PyStr("Amount can't be 0")]
    ELSE IF (IF token = "ETH" THEN onchain.eth_balance ELSE onchain.balanceOf[token]) < amount
    THEN [Building(contracts, 0) EXCEPT !.raised = PyStr("Insufficient balance")]
    ELSE [Building(contracts, 0) EXCEPT
             !.txs = <<TxItem(IF token = "ETH" THEN eth_tx("wallet_to", amount, onchain)
                              ELSE transfer(contracts[token], "wallet_to", amount, onchain),
                              "Transfer")>>]

\* send_eth and send_token: if raw ... elif send ... else the estimate.
send_dispatch(raised, send_, raw) ==
    IF raised # None THEN [at |-> "raised", i |-> 0]
    ELSE IF raw THEN [at |-> "get_raw_txs", i |-> 1]
    ELSE IF send_ THEN [at |-> "sign_and_send_tx", i |-> 1]
    ELSE [at |-> "estimate_txs", i |-> 1]

send_command(b, token, amount, estimate, send_, raw) ==
    /\ pc.at = "idle"
    /\ contracts' = b.cs
    /\ txs' = b.txs
    /\ ret_op' = << [op |-> "send", estimate |-> estimate, send |-> send_, raw |-> raw,
                     raised |-> b.raised, n |-> chain.transaction_count,
                     listed |-> position_data,
                     locals |-> [token |-> token, amount |-> amount]] >>
    /\ pc' = send_dispatch(b.raised, cli_send(estimate, send_), raw)
    /\ UNCHANGED <<position_fields, world, rets>>
    /\ UNCHANGED <<ret_refresh, open_batch, ret_batch, signed, network, receipts,
                   key_reads, ret_ticks>>

send_funds(token, amount, estimate, send_, raw) ==
    send_command(send_txs_built(token, amount, chain), token, amount, estimate, send_, raw)

\* web3_utils.sign_and_send_tx in send_eth and send_token: get_private_key,
\* sign_transaction, send_raw_transaction; the receipt is not waited for.
web3_utils_sign_and_send_tx(outcome) ==
    /\ pc.at = "sign_and_send_tx"
    /\ key_reads' = IF outcome = "no key file" THEN key_reads ELSE key_reads + 1
    /\ signed' = IF outcome \in {"sent", "not sent"} THEN Append(signed, txs[pc.i].tx)
                 ELSE signed
    /\ network' = IF outcome = "sent" THEN Append(network, txs[pc.i].tx) ELSE network
    /\ pc' = IF outcome = "sent" THEN [at |-> "done", i |-> pc.i]
             ELSE [at |-> "raised", i |-> pc.i]
    /\ UNCHANGED <<sending_fields, receipts>>

\* ------------------------------------------------ operations specification
\* The token addresses of the commands.
Tokens == {"token0", "token1"}
\* The fee tiers a command is given: one of PoolFee, and one that is not.
FeeTiers == {500, 5}
\* The balances and allowances of the wallet.
Holdings == {0, MaxAmount}
\* Which token, if any, is WETH.
Symbols == {[token0 |-> "WETH", token1 |-> "USDC"], [token0 |-> "DAI", token1 |-> "WETH"],
            [token0 |-> "DAI", token1 |-> "USDC"]}
\* The quote of every fee tier: quote[amount_key] and quote["gasEstimate"].
Quote(amount) == [amount |-> amount, gasEstimate |-> 100000]
\* A log-price for get_ticks.
OpsLogPrice == 3 * LogPriceStep

\* The chain as a command sees it: the position and its pool, the wallet's
\* ETH, token balances and allowances, the quotes of the four pools.
OpsChain(n, held, eth, balances, allowances, symbols, quotes) ==
    [pool |-> PositionChain(n, 1, held).pool,
     position_manager |-> PositionChain(n, 1, held).position_manager,
     factory |-> FactoryViews,
     block_number |-> 0, logs |-> {0},
     transaction_count |-> n,
     eth_balance |-> eth, balanceOf |-> balances, allowance |-> allowances,
     symbol |-> symbols, quotes |-> quotes,
     position_pool |-> [token0 |-> "token0", token1 |-> "token1", fee |-> 500],
     log_price |-> OpsLogPrice]

OpsContracts ==
    [pool |-> Contract("pool"),
     position_manager |-> Contract("position_manager"),
     factory |-> Contract("factory"),
     token0 |-> Contract("token0"), token1 |-> Contract("token1"),
     weth9 |-> Contract("weth9"), router |-> Contract("router")]

\* A command starts in a new process; the "positions" cache file lists the
\* position when the wallet holds it.
InitOperations ==
    /\ \E n \in 0 .. MaxNonce, held \in BOOLEAN, eth \in Holdings,
          b0 \in Holdings, b1 \in Holdings, a \in Holdings, symbols \in Symbols :
          chain = OpsChain(n, held, eth, [token0 |-> b0, token1 |-> b1],
                           [token0 |-> a, token1 |-> a], symbols,
                           [t \in {100, 500, 3000, 10000} |-> Quote(1)])
    /\ position_data = [liquidity |-> 1, tickLower |-> -MaxTick, tickUpper |-> MaxTick,
                        feeGrowthInside0LastX128 |-> 0, feeGrowthInside1LastX128 |-> 0]
    /\ all_positions = IF chain.position_manager[CacheKey("balanceOf", <<wallet_address>>)].v > 0
                       THEN {position_id} ELSE {}
    /\ contracts = OpsContracts
    /\ now = 0
    /\ creation_date = None
    /\ decimals0 = 0
    /\ decimals1 = 0
    /\ NoRets
    /\ NoOps

NextOperations ==
    \/ \E in_erc20 \in Tokens, out_erc20 \in Tokens, find_in_mode \in BOOLEAN,
          use_eth \in BOOLEAN, estimate \in BOOLEAN, send \in BOOLEAN, raw \in BOOLEAN :
          swap(in_erc20, out_erc20, IF find_in_mode THEN 0 ELSE 1,
               IF find_in_mode THEN 1 ELSE 0, use_eth, estimate, send, raw)
    \/ \E token0_ \in Tokens, token1_ \in Tokens, fee_ \in FeeTiers,
          use_eth \in BOOLEAN, estimate \in BOOLEAN, send \in BOOLEAN, raw \in BOOLEAN :
          open_position(token0_, token1_, 1, 1, fee_, use_eth, estimate, send, raw)
    \/ \E token0_ \in Tokens, token1_ \in Tokens, position_id_ \in PositionIds,
          use_eth \in BOOLEAN, estimate \in BOOLEAN, send \in BOOLEAN, raw \in BOOLEAN :
          add_liqudity(token0_, token1_, 1, 1, position_id_, use_eth, estimate, send, raw)
    \/ \E position_id_ \in PositionIds, estimate \in BOOLEAN, send \in BOOLEAN, raw \in BOOLEAN :
          close_position(position_id_, estimate, send, raw)
    \/ \E position_id_ \in PositionIds, decrease_percents \in {0, 50, 100},
          estimate \in BOOLEAN, send \in BOOLEAN, raw \in BOOLEAN :
          remove_liquidity(position_id_, decrease_percents, estimate, send, raw)
    \/ \E token \in {"ETH", "token0"}, amount \in 0 .. 1,
          estimate \in BOOLEAN, send_ \in BOOLEAN, raw \in BOOLEAN :
          send_funds(token, amount, estimate, send_, raw)
    \/ \E outcome \in SendOutcomes : sign_and_send_tx(outcome)
    \/ \E outcome \in ReceiptOutcomes : get_tx_receipt(outcome)
    \/ \E outcome \in SendOutcomes : web3_utils_sign_and_send_tx(outcome)
    \/ \E outcome \in RawOutcomes : sign_and_get_raw_tx(outcome)
    \/ estimate_txs

SpecOperations == InitOperations /\ [][NextOperations]_vars

\* ------------------------------------------------------ swap specification
\* The amounts the four pools quote.
QuoteAmounts == {1, MaxAmount}
\* The amounts swap is given: the input amount, the output amount, or both
\* (then the output amount counts); cli.py exits when both are 0.
SwapAmounts ==
    {a \in (0 .. MaxAmount) \X (0 .. MaxAmount) : a # <<0, 0>> /\ (a[1] = 0 \/ a[2] <= 1)}

\* swap in a new process: the pools of the four tiers quote any amounts,
\* the wallet holds any balance of the input token.
InitSwap ==
    /\ \E eth \in Holdings, b \in 0 .. MaxAmount, a \in Holdings,
          symbols \in {[token0 |-> "WETH", token1 |-> "USDC"],
                       [token0 |-> "DAI", token1 |-> "USDC"]},
          q \in [{100, 500, 3000, 10000} -> QuoteAmounts] :
          chain = OpsChain(0, FALSE, eth, [token0 |-> b, token1 |-> b],
                           [token0 |-> a, token1 |-> a], symbols,
                           [t \in {100, 500, 3000, 10000} |-> Quote(q[t])])
    /\ position_data = [liquidity |-> 1, tickLower |-> -MaxTick, tickUpper |-> MaxTick,
                        feeGrowthInside0LastX128 |-> 0, feeGrowthInside1LastX128 |-> 0]
    /\ all_positions = {}
    /\ contracts = OpsContracts
    /\ now = 0
    /\ creation_date = None
    /\ decimals0 = 0
    /\ decimals1 = 0
    /\ NoRets
    /\ NoOps

NextSwap ==
    \/ \E out_erc20 \in Tokens, a \in SwapAmounts,
          use_eth \in BOOLEAN, estimate \in BOOLEAN, send \in BOOLEAN, raw \in BOOLEAN :
          swap("token0", out_erc20, a[1], a[2], use_eth, estimate, send, raw)
    \/ \E outcome \in SendOutcomes : sign_and_send_tx(outcome)
    \/ \E outcome \in ReceiptOutcomes : get_tx_receipt(outcome)
    \/ \E outcome \in RawOutcomes : sign_and_get_raw_tx(outcome)
    \/ estimate_txs

SpecSwap == InitSwap /\ [][NextSwap]_vars

\* ================================================================ claims
\* 2^256 on the model's scale (2^128 squared): the modulus the specification
\* gives for the fee-growth arithmetic.  The source never reduces by it.
UINT256 == Q128 * Q128

\* The fee growth inside the range as the specification writes it.
FeeGrowthInsideOf(global, lower_outside, upper_outside, tick_lower, tick_upper, tick_current) ==
    LET below == IF tick_current >= tick_lower THEN lower_outside ELSE global - lower_outside
        above == IF tick_current >= tick_upper THEN global - upper_outside ELSE upper_outside
    IN  global - below - above

\* C1: for each token, _calculate_fees derives the fee growth inside the range
\* as global - below - above with below and above chosen by the position of
\* the current tick; global 1000, lower outside 100, upper outside 200 and the
\* current tick between the bounds give 700.
C1_FeeGrowthInside ==
    Called(ret_fees) =>
        /\ Val(ret_fees).fr_t1_0 =
               FeeGrowthInsideOf(feeGrowthGlobal0X128, tick_low.feeGrowthOutside0X128,
                                 tick_high.feeGrowthOutside0X128, position_data.tickLower,
                                 position_data.tickUpper, slot0.tick)
        /\ Val(ret_fees).fr_t1_1 =
               FeeGrowthInsideOf(feeGrowthGlobal1X128, tick_low.feeGrowthOutside1X128,
                                 tick_high.feeGrowthOutside1X128, position_data.tickLower,
                                 position_data.tickUpper, slot0.tick)
        /\ ( /\ feeGrowthGlobal0X128 = 1000
             /\ tick_low.feeGrowthOutside0X128 = 100
             /\ tick_high.feeGrowthOutside0X128 = 200
             /\ position_data.tickLower <= slot0.tick
             /\ slot0.tick < position_data.tickUpper ) => Val(ret_fees).fr_t1_0 = 700

C1_Witness ==
    /\ Called(ret_fees)
    /\ feeGrowthGlobal0X128 = 1000
    /\ tick_low.feeGrowthOutside0X128 = 100
    /\ tick_high.feeGrowthOutside0X128 = 200
    /\ position_data.tickLower < slot0.tick
    /\ slot0.tick < position_data.tickUpper
    /\ Val(ret_fees).fr_t1_0 = 700

\* C2: every subtraction of the fee-growth-inside computation wraps modulo
\* 2^256, so for fee-growth values in [0, 2^256) the computed feeGrowthInside0
\* and feeGrowthInside1 lie in [0, 2^256).
C2_FeeGrowthInsideWraps ==
    Called(ret_fees) =>
        /\ Val(ret_fees).fr_t1_0 \in 0 .. (UINT256 - 1)
        /\ Val(ret_fees).fr_t1_1 \in 0 .. (UINT256 - 1)

\* C3: the uncollected fee of token i is
\* liquidity * ((feeGrowthInside_i - feeGrowthInsideLast_i) mod 2^256) / 2^128 / 10^decimals_i,
\* and so is never negative.
C3_UncollectedFeeWraps ==
    Called(ret_fees) =>
        /\ REq(Val(ret_fees).fee0,
               Rat(position_data.liquidity
                     * ((Val(ret_fees).fr_t1_0 - position_data.feeGrowthInside0LastX128) % UINT256),
                   Q128 * Pow(10, decimals0)))
        /\ REq(Val(ret_fees).fee1,
               Rat(position_data.liquidity
                     * ((Val(ret_fees).fr_t1_1 - position_data.feeGrowthInside1LastX128) % UINT256),
                   Q128 * Pow(10, decimals1)))
        /\ RLe(RZero, Val(ret_fees).fee0)
        /\ RLe(RZero, Val(ret_fees).fee1)

\* The three sqrt prices of the position's snapshot, and its liquidity.
SqrtCurrent == Rat(slot0.sqrtPriceX96, Q96)
SqrtLower == TickToSqrtPrice(position_data.tickLower)
SqrtUpper == TickToSqrtPrice(position_data.tickUpper)
Liq == RInt(position_data.liquidity)
StrictlyInside == RLt(SqrtLower, SqrtCurrent) /\ RLt(SqrtCurrent, SqrtUpper)

\* C4: _calculate_amounts follows the three-region formula: at or below the
\* lower bound amount0 = L*(up - lo)/(up*lo) and amount1 = 0; at or above the
\* upper bound amount0 = 0 and amount1 = L*(up - lo) exactly; in between
\* amount0 = L*(up - cur)/(up*cur) and amount1 = L*(cur - lo).
C4_ThreeRegions ==
    Called(ret_locked) =>
        LET r == Val(ret_locked)
        IN  IF RLe(SqrtCurrent, SqrtLower)
            THEN /\ REq(RMul(r.amount0, RMul(SqrtUpper, SqrtLower)),
                        RMul(Liq, RSub(SqrtUpper, SqrtLower)))
                 /\ REq(r.amount1, RZero)
            ELSE IF RLe(SqrtUpper, SqrtCurrent)
            THEN /\ REq(r.amount0, RZero)
                 /\ REq(r.amount1, RMul(Liq, RSub(SqrtUpper, SqrtLower)))
            ELSE /\ REq(RMul(r.amount0, RMul(SqrtUpper, SqrtCurrent)),
                        RMul(Liq, RSub(SqrtUpper, SqrtCurrent)))
                 /\ REq(r.amount1, RMul(Liq, RSub(SqrtCurrent, SqrtLower)))

C4_Witness ==
    /\ Called(ret_locked)
    /\ position_data.liquidity > 0
    /\ RLt(SqrtUpper, SqrtCurrent)
    /\ REq(Val(ret_locked).amount0, RZero)
    /\ RLt(RZero, Val(ret_locked).amount1)

\* C5 as stated: strictly between the bounds amount0 > 0 and amount1 > 0; at
\* or beyond a bound the out-of-range side is exactly 0; the locked amounts
\* are never negative.
C5_Conservation ==
    Called(ret_locked) =>
        LET r == Val(ret_locked)
        IN  /\ StrictlyInside => RLt(RZero, r.amount0) /\ RLt(RZero, r.amount1)
            /\ RLe(SqrtCurrent, SqrtLower) => REq(r.amount1, RZero) /\ REq(r.token1_amount, RZero)
            /\ RLe(SqrtUpper, SqrtCurrent) => REq(r.amount0, RZero) /\ REq(r.token0_amount, RZero)
            /\ RLe(RZero, r.amount0) /\ RLe(RZero, r.amount1)
            /\ RLe(RZero, r.token0_amount) /\ RLe(RZero, r.token1_amount)

\* C5 amended: the same, the positivity strictly between the bounds holding
\* for liquidity > 0.
C5_ConservationPositiveLiquidity ==
    Called(ret_locked) =>
        LET r == Val(ret_locked)
        IN  /\ (StrictlyInside /\ position_data.liquidity > 0) =>
                   /\ RLt(RZero, r.amount0) /\ RLt(RZero, r.amount1)
                   /\ RLt(RZero, r.token0_amount) /\ RLt(RZero, r.token1_amount)
            /\ RLe(SqrtCurrent, SqrtLower) => REq(r.amount1, RZero) /\ REq(r.token1_amount, RZero)
            /\ RLe(SqrtUpper, SqrtCurrent) => REq(r.amount0, RZero) /\ REq(r.token0_amount, RZero)
            /\ RLe(RZero, r.amount0) /\ RLe(RZero, r.amount1)
            /\ RLe(RZero, r.token0_amount) /\ RLe(RZero, r.token1_amount)

C5_Witness ==
    /\ Called(ret_locked)
    /\ position_data.liquidity > 0
    /\ StrictlyInside
    /\ RLt(RZero, Val(ret_locked).amount0)
    /\ RLt(RZero, Val(ret_locked).amount1)

\* C6: with liquidity and both bounds fixed, for current sqrt prices p1 <= p2
\* anywhere (below, inside, above the range) amount0(p1) >= amount0(p2) and
\* amount1(p1) <= amount1(p2).
C6_Monotone ==
    Called(ret_locked) =>
        \A x2 \in SqrtPriceX96Values :
            slot0.sqrtPriceX96 <= x2 =>
                LET r2 == _calculate_amounts(position_data.liquidity, RInt(x2),
                                             TickToSqrtPriceX96(position_data.tickUpper),
                                             TickToSqrtPriceX96(position_data.tickLower))
                IN  /\ RLe(r2.amount0, Val(ret_locked).amount0)
                    /\ RLe(Val(ret_locked).amount1, r2.amount1)

\* A price inside the range with prices above the range to compare with.
C6_Witness ==
    /\ Called(ret_locked)
    /\ position_data.liquidity > 0
    /\ StrictlyInside
    /\ \E x2 \in SqrtPriceX96Values :
          /\ RLt(SqrtUpper, Rat(x2, Q96))
          /\ LET r2 == _calculate_amounts(position_data.liquidity, RInt(x2),
                                          TickToSqrtPriceX96(position_data.tickUpper),
                                          TickToSqrtPriceX96(position_data.tickLower))
             IN  /\ RLt(r2.amount0, Val(ret_locked).amount0)
                 /\ RLt(Val(ret_locked).amount1, r2.amount1)

\* The decimal-adjusted pool price: (sqrtPriceX96 / 2^96)^2 / 10^(decimals1 - decimals0).
AdjustedPrice ==
    RDiv(Rat(slot0.sqrtPriceX96 * slot0.sqrtPriceX96, Q96 * Q96),
         PyPow(10, decimals1 - decimals0))

\* C7: is_active is true exactly when liquidity > 0 and
\* priceLower < adjusted pool price < priceUpper, both strict, for the pair
\* get_price_range returned.
C7_IsActive ==
    (Called(ret_active) /\ Called(ret_range)) =>
        ( Val(ret_active) <=>
            /\ position_data.liquidity > 0
            /\ RLt(Val(ret_range)[1], AdjustedPrice)
            /\ RLt(AdjustedPrice, Val(ret_range)[2]) )

\* The price exactly on the upper boundary, liquidity present: not active.
C7_Witness ==
    /\ Called(ret_active)
    /\ Called(ret_range)
    /\ position_data.liquidity > 0
    /\ REq(AdjustedPrice, Val(ret_range)[2])
    /\ Val(ret_active) = FALSE

\* C8 as stated: whenever the pool's current tick equals tickLower, is_active
\* returns false.
C8_AtTickLowerInactive ==
    (Called(ret_active) /\ slot0.tick = position_data.tickLower) => Val(ret_active) = FALSE

\* C8 amended: with the current tick equal to tickLower, is_active returns
\* false exactly when liquidity is 0 or the price sits on the lower boundary
\* itself; for the prices above it inside that tick it returns true.
C8_AtTickLowerActiveAboveBoundary ==
    (Called(ret_active) /\ slot0.tick = position_data.tickLower) =>
        ( Val(ret_active) = FALSE <=>
            \/ position_data.liquidity = 0
            \/ REq(SqrtCurrent, SqrtLower) )

C8_Witness ==
    /\ Called(ret_active)
    /\ slot0.tick = position_data.tickLower
    /\ RLt(SqrtLower, SqrtCurrent)
    /\ Val(ret_active) = TRUE

\* The price lies outside the open price range of the position.
PriceOutsideRange ==
    \/ RLe(AdjustedPrice, RDiv(TickToPrice(position_data.tickLower), PyPow(10, decimals1 - decimals0)))
    \/ RLe(RDiv(TickToPrice(position_data.tickUpper), PyPow(10, decimals1 - decimals0)), AdjustedPrice)

\* C9: is_closed is true exactly when liquidity = 0, and a snapshot is in
\* exactly one of Closed, Active (liquidity > 0, price in range) and OutOfRange
\* (liquidity > 0, price outside the range); is_closed and is_active are never
\* both true.
C9_ClosedActiveOutOfRange ==
    /\ Called(ret_closed) => (Val(ret_closed) <=> position_data.liquidity = 0)
    /\ (Called(ret_closed) /\ Called(ret_active)) =>
          LET closed == Val(ret_closed)
              active == Val(ret_active)
              out_of_range == position_data.liquidity > 0 /\ PriceOutsideRange
          IN  /\ ~(closed /\ active)
              /\ closed \/ active \/ out_of_range
              /\ ~(closed /\ out_of_range)
              /\ ~(active /\ out_of_range)

\* Liquidity present and the price out of range: neither closed nor active.
C9_Witness ==
    /\ Called(ret_closed)
    /\ Called(ret_active)
    /\ position_data.liquidity > 0
    /\ PriceOutsideRange
    /\ Val(ret_closed) = FALSE
    /\ Val(ret_active) = FALSE

\* C10: with liquidity = 0, is_closed is true and both locked amounts are
\* exactly 0, whatever the current price and the tick bounds.
C10_ZeroLiquidity ==
    position_data.liquidity = 0 =>
        /\ Called(ret_closed) => Val(ret_closed) = TRUE
        /\ Called(ret_locked) =>
              /\ REq(Val(ret_locked).amount0, RZero)
              /\ REq(Val(ret_locked).amount1, RZero)
              /\ REq(Val(ret_locked).token0_amount, RZero)
              /\ REq(Val(ret_locked).token1_amount, RZero)

C10_Witness ==
    /\ position_data.liquidity = 0
    /\ RLt(SqrtUpper, SqrtCurrent)
    /\ Called(ret_closed)
    /\ Called(ret_locked)
    /\ Val(ret_closed) = TRUE
    /\ REq(Val(ret_locked).token1_amount, RZero)

\* C11 as stated: there are snapshots with liquidity = 0 for which the
\* uncollected fee of token 0 or of token 1 is not 0.
C11_ZeroLiquidityFeesMayBeNonzero ==
    \E g0 \in FeeGrowthGlobalValues0, g1 \in FeeGrowthGlobalValues1,
       lo \in TickValues, hi \in TickValues,
       last0 \in FeeGrowthLastValues0, last1 \in FeeGrowthLastValues1,
       tl \in Ticks, tu \in Ticks, s0 \in FeeSlot0Values :
        /\ tl < tu
        /\ LET fees == _calculate_fees(g0, g1, lo.feeGrowthOutside0X128, hi.feeGrowthOutside0X128,
                                       lo.feeGrowthOutside1X128, hi.feeGrowthOutside1X128,
                                       last0, last1, 0, decimals0, decimals1, tl, tu, s0.tick)
           IN  ~REq(fees.fee0, RZero) \/ ~REq(fees.fee1, RZero)

\* C11 amended: for a position with liquidity = 0 the fees are still computed
\* from the fee-growth snapshot (the fee growth inside the range is derived
\* as for any position, no error is raised) and both uncollected fees are
\* exactly 0, whatever the fee growth since the last recorded snapshot.
C11_ZeroLiquidityFeesAreZero ==
    (Called(ret_fees) /\ position_data.liquidity = 0) =>
        /\ Val(ret_fees).fr_t1_0 =
               FeeGrowthInsideOf(feeGrowthGlobal0X128, tick_low.feeGrowthOutside0X128,
                                 tick_high.feeGrowthOutside0X128, position_data.tickLower,
                                 position_data.tickUpper, slot0.tick)
        /\ REq(Val(ret_fees).fee0, RZero)
        /\ REq(Val(ret_fees).fee1, RZero)

\* Fee growth since the last snapshot in both tokens, no liquidity, no fees.
C11_Witness ==
    /\ Called(ret_fees)
    /\ position_data.liquidity = 0
    /\ Val(ret_fees).fr_t1_0 > position_data.feeGrowthInside0LastX128
    /\ Val(ret_fees).fr_t1_1 > position_data.feeGrowthInside1LastX128
    /\ REq(Val(ret_fees).fee0, RZero)
    /\ REq(Val(ret_fees).fee1, RZero)

\* 1.0001^tick on the model's scale, as a rational.
BaseToThe(tick) ==
    IF tick >= 0 THEN Rat(Pow(SqrtTickBase * SqrtTickBase, tick), 1)
    ELSE Rat(1, Pow(SqrtTickBase * SqrtTickBase, -tick))

\* C19: get_price_range returns (1.0001^tickLower, 1.0001^tickUpper), each
\* divided by 10^(decimals1 - decimals0): a function of the two ticks and the
\* two decimals alone, the same for every current price of the pool; and
\* priceLower < priceUpper whenever tickLower < tickUpper.
C19_PriceRange ==
    Called(ret_range) =>
        /\ REq(RMul(Val(ret_range)[1], RInt(Pow(10, decimals1))),
               RMul(BaseToThe(position_data.tickLower), RInt(Pow(10, decimals0))))
        /\ REq(RMul(Val(ret_range)[2], RInt(Pow(10, decimals1))),
               RMul(BaseToThe(position_data.tickUpper), RInt(Pow(10, decimals0))))
        /\ position_data.tickLower < position_data.tickUpper =>
               RLt(Val(ret_range)[1], Val(ret_range)[2])

\* Different decimals and a current price above the whole range.
C19_Witness ==
    /\ Called(ret_range)
    /\ decimals1 > decimals0
    /\ position_data.tickLower < 0
    /\ RLt(Val(ret_range)[2], AdjustedPrice)
    /\ RLt(Val(ret_range)[1], Val(ret_range)[2])

\* The value locked in the position, in token1, for the pool values cached.
LockedValueQuote ==
    LET locked == total_locked_amount(pool)
    IN  total_in_token1(locked.token0_amount, locked.token1_amount, AdjustedPrice)

\* The value of the uncollected fees, in token1, for the pool values cached.
FeeValueQuote ==
    LET fees == total_fees_collected(pool)
    IN  total_in_token1(fees.fee0, fees.fee1, AdjustedPrice)

\* C12: when the total locked value in the quote token is 0,
\* calculate_position_apy returns apy = 0 and raises no exception, for any
\* fee value and any creation timestamp.
C12_ZeroLockedValue ==
    (Called(ret_apy) /\ REq(LockedValueQuote, RZero)) =>
        /\ Val(ret_apy).raised = ""
        /\ REq(Val(ret_apy).apy, RZero)

\* C13: when the creation timestamp is unknown, the APY computation returns
\* apy = 0 and ageDays = 0 and raises no error; in both revisions of the
\* position class.
C13_UnknownCreationDate ==
    creation_date = None =>
        /\ Called(ret_apy) =>
              /\ Val(ret_apy).raised = ""
              /\ REq(Val(ret_apy).apy, RZero)
              /\ Val(ret_apy).total_days = 0
        /\ Called(ret_apy_legacy) =>
              /\ Val(ret_apy_legacy).raised = ""
              /\ REq(Val(ret_apy_legacy).apy, RZero)
              /\ Val(ret_apy_legacy).total_days = 0

\* C14: with a nonzero locked value and a known creation timestamp <= now,
\* calculate_position_apy raises nothing and returns
\* apy = feeValueQuote / lockedValueQuote * (secondsPerYear / ageSeconds) * 100
\* with ageSeconds = now - creationTimestamp, and ageDays = the whole days of
\* that age.
C14_ApyFormula ==
    ( /\ Called(ret_apy)
      /\ ~REq(LockedValueQuote, RZero)
      /\ Truthy(creation_date)
      /\ creation_date.v <= now ) =>
        /\ Val(ret_apy).raised = ""
        /\ REq(RMul(RMul(Val(ret_apy).apy, LockedValueQuote), RInt(now - creation_date.v)),
               RMul(FeeValueQuote, RInt(SecondsPerYear * 100)))
        /\ Val(ret_apy).total_days * SecondsPerDay <= now - creation_date.v
        /\ now - creation_date.v < (Val(ret_apy).total_days + 1) * SecondsPerDay

\* C15: a valuation of a position with tickLower >= tickUpper (equally:
\* sqrtPriceLower >= sqrtPriceUpper) or with negative liquidity fails with an
\* error: it never returns locked amounts, fees or a status.
C15_MalformedRejected ==
    Malformed(position_data) =>
        /\ ~Called(ret_locked)
        /\ ~Called(ret_fees)
        /\ ~Called(ret_closed)
        /\ ~Called(ret_active)

\* A step in which a valuation operation returned.
ValuationReturned ==
    <<ret_locked, ret_fees, ret_range, ret_active, ret_closed, ret_apy>>' #
    <<ret_locked, ret_fees, ret_range, ret_active, ret_closed, ret_apy>>

\* C17: the valuation operations never mutate their inputs: the position
\* record, the creation date and the pool and tick values they read are the
\* same after each call as before it.
C17_ValuationLeavesInputs ==
    [][ValuationReturned =>
          /\ position_data' = position_data
          /\ creation_date' = creation_date
          /\ pool.cache' = pool.cache]_vars

\* C20: once a view call has fetched and stored a result, every later call of
\* the same function with the same arguments, made while the sync counter is
\* not positive, returns the stored result without another chain call,
\* whatever the stored value is (0, False, "" and empty collections included).
C20_StoredResultReturned ==
    Called(ret_view) =>
        LET r == Val(ret_view)
        IN  (r.stored # None /\ r.sync_num_of_calls <= 0) =>
                /\ r.chain_calls = 0
                /\ r.result = r.stored

\* C16: a position's creation date, once resolved, never changes: a call of
\* get_deposit_init_date that finds a creation date stored returns it, with
\* any from_block and chunk size, without reading the logs again, and no step
\* of get_list_of_positions, refresh or a valuation operation replaces a
\* stored creation date.
C16_CreationDateResolvedOnce ==
    [][/\ (Called(ret_init_date') /\ Val(ret_init_date').stored # None =>
              /\ Val(ret_init_date').value = Val(ret_init_date').stored
              /\ Val(ret_init_date').get_logs_calls = 0)
       /\ (creation_date # None => creation_date' = creation_date)]_vars

\* get_deposit_init_date was called with a creation date stored and a
\* from_block after it from which a scan finds a later Transfer.
C16_Witness ==
    /\ Called(ret_init_date)
    /\ Val(ret_init_date).stored # None
    /\ Val(ret_init_date).from_block > Val(ret_init_date).stored.v
    /\ deposit_init_date(None, Val(ret_init_date).from_block, 1, chain).value
          \notin {None, Val(ret_init_date).stored}
    /\ position_id \in all_positions
    /\ Called(ret_apy)

\* C21: refresh reads the position record and the five pool values from the
\* chain again, cached or not, and leaves the sync counters of the position
\* manager and of the pool at 0; the valuation calls that follow read exactly
\* the values refresh fetched.
C21_RefreshThenValuation ==
    [][/\ ret_refresh' # ret_refresh =>
            /\ position_data' = chain.position_manager[CacheKey("positions", <<position_id>>)].v
            /\ \A i \in 1 .. 5 :
                  contracts'.pool.cache[RefreshCalls(position_data')[i]] =
                      chain.pool[RefreshCalls(position_data')[i]]
            /\ contracts'.pool._sync_num_of_calls = 0
            /\ contracts'.position_manager._sync_num_of_calls = 0
       /\ (Called(ret_refresh) /\ ret_fees' # ret_fees) =>
            ret_fees' = << total_fees_collected(Val(ret_refresh).pool) >>
       /\ (Called(ret_refresh) /\ ret_locked' # ret_locked) =>
            ret_locked' = << total_locked_amount(Val(ret_refresh).pool) >>]_vars

\* C22: Batch.execute returns exactly one result per add(), in the order of
\* the add() calls, for any mix of calls answered by the cache and calls
\* fetched: a call the cache answered yields the cached value, the i-th call
\* not answered by the cache yields the chain's answer to that very call,
\* which is also stored in its contract's cache under the key call_view_func
\* uses; after every add() the contract's pending-batch marker is cleared and
\* the output has grown by the one item of the call added.
C22_BatchResults ==
    [][/\ (open_batch # None /\ open_batch' # None /\ open_batch'.output # open_batch.output
             /\ ~Called(ret_batch')) =>
            /\ Len(open_batch'.output) = Len(open_batch.output) + 1
            /\ \A c \in BatchContracts : contracts'[c]._batch = None
       /\ (~Called(ret_batch) /\ Called(ret_batch')) =>
            /\ Len(Val(ret_batch')) = Len(open_batch.output)
            /\ \A j \in 1 .. Len(open_batch.output) :
                  LET item == open_batch.output[j]
                      c == item.contract.v
                  IN  IF item.result # None
                      THEN Val(ret_batch')[j] = item.result
                      ELSE /\ Val(ret_batch')[j] = chain[c][item_cache_key(item)]
                           /\ contracts'[c].cache[item_cache_key(item)] = Val(ret_batch')[j]]_vars

\* A batch of a cached call followed by a fetched one has been executed, the
\* two results being different.
C22_Witness ==
    /\ Called(ret_batch)
    /\ open_batch # None
    /\ \E i, j \in 1 .. Len(open_batch.output) :
          /\ i < j
          /\ open_batch.output[i].func_obj = None
          /\ open_batch.output[j].func_obj # None
          /\ Val(ret_batch)[i] # Val(ret_batch)[j]

C24_ClosePosition ==
    (Called(ret_op) /\ Val(ret_op).op = "close_position") =>
        LET position_id_ == Val(ret_op).locals.position_id
            held == chain.position_manager[CacheKey("balanceOf", <<wallet_address>>)].v > 0
            liquidity == chain.position_manager[CacheKey("positions", <<position_id>>)].v.liquidity
        IN  IF position_id_ = position_id /\ held /\ liquidity > 0
            THEN /\ Val(ret_op).raised = None
                 /\ Len(txs) = 3
                 /\ txs[1].tx.function = "decreaseLiquidity"
                 /\ txs[1].tx.args = [tokenId |-> position_id_, liquidity |-> liquidity]
                 /\ txs[2].tx.function = "collect"
                 /\ txs[2].tx.args = [tokenId |-> position_id_]
                 /\ txs[3].tx.function = "burn"
                 /\ txs[3].tx.args = [tokenId |-> position_id_]
            ELSE /\ Val(ret_op).raised # None
                 /\ txs = <<>>
                 /\ signed = <<>>
                 /\ network = <<>>
                 /\ key_reads = 0
                 /\ pc.at = "raised"

\* A position listed by an earlier run with another liquidity than the chain
\* holds now has been closed, the three transactions sent and mined.
C24_Witness ==
    /\ Called(ret_op)
    /\ Val(ret_op).op = "close_position"
    /\ Val(ret_op).raised = None
    /\ Val(ret_op).listed.liquidity # txs[1].tx.args.liquidity
    /\ pc.at = "done"
    /\ Len(receipts) = 3

\* C28: remove_liquidity raises for a percentage <= 0 or > 100 before any
\* position is read or any transaction built; for a percentage in range the
\* liquidity decreased is int(liquidity * percent / 100), never more than the
\* position's liquidity and all of it at 100 percent, followed by exactly
\* one collect transaction.
C28_RemoveLiquidity ==
    (Called(ret_op) /\ Val(ret_op).op = "remove_liquidity") =>
        LET position_id_ == Val(ret_op).locals.position_id
            percent == Val(ret_op).locals.decrease_percents
            liquidity == chain.position_manager[CacheKey("positions", <<position_id>>)].v.liquidity
        IN  IF percent <= 0 \/ percent > 100
            THEN /\ Val(ret_op).raised # None
                 /\ txs = <<>>
                 /\ \A c \in {"pool", "position_manager", "factory"} :
                       contracts[c] = Contract(c)
                 /\ position_data = Val(ret_op).listed
            ELSE Val(ret_op).raised = None =>
                 /\ Len(txs) = 2
                 /\ txs[1].tx.function = "decreaseLiquidity"
                 /\ txs[1].tx.args.liquidity <= liquidity
                 /\ percent = 100 => txs[1].tx.args.liquidity = liquidity
                 /\ txs[2].tx.function = "collect"

\* C23: in swap, open_position, add_liqudity, close_position and
\* remove_liquidity the transactions built for one operation carry
\* consecutive nonces in list order: the k-th built transaction
\* (k = 0, 1, ...) has nonce n + k, n being the wallet's transaction count
\* read at the start of the operation, also when n = 0.
C23_ConsecutiveNonces ==
    ret_op # <<>> =>
        \A k \in 1 .. Len(txs) :
            txs[k].tx # None => txs[k].tx.nonce = ret_op[1].n + (k - 1)

\* open_position from a wallet that never sent a transaction built four
\* transactions (wrap, approve, approve, mint); the last one has nonce 3.
C23_Witness ==
    /\ ret_op # <<>>
    /\ ret_op[1].op = "open_position"
    /\ ret_op[1].n = 0
    /\ Len(txs) = 4
    /\ txs[1].tx.nonce = 0
    /\ txs[4].tx.function = "mint"
    /\ txs[4].tx.nonce = 3

\* C25: send_txs broadcasts the transactions in list order and has the
\* receipt of every transaction before it signs and broadcasts the next
\* one; once signing, sending or waiting has raised, nothing more of the
\* list is broadcast.
C25_SendInOrder ==
    [][ pc.at \in {"send_txs", "get_tx_receipt", "raised"} =>
           /\ signed' # signed =>
                 /\ receipts = network
                 /\ signed = network
                 /\ signed' = Append(signed, txs[Len(network) + 1].tx)
           /\ network' # network =>
                 /\ pc.at = "send_txs"
                 /\ pc.i = Len(network) + 1
                 /\ network' = Append(network, txs[Len(network) + 1].tx)
           /\ receipts' # receipts =>
                 /\ Len(network) = Len(receipts) + 1
                 /\ receipts' = network
           /\ pc.at = "raised" => network' = network /\ signed' = signed
      ]_vars

\* Of three transactions the first was mined, the second was broadcast
\* and its receipt never came: the third was not signed or broadcast.
C25_Witness ==
    /\ pc.at = "raised"
    /\ Len(txs) = 3
    /\ network = <<txs[1].tx, txs[2].tx>>
    /\ receipts = <<txs[1].tx>>
    /\ signed = network

\* C26: a transaction is broadcast only when send is requested and neither
\* raw nor estimate is; with --raw the transactions are signed, never
\* broadcast, whatever send is; with --estimate nothing is broadcast; with
\* neither send in effect nor raw nothing is signed and no private key is
\* read.
C26_BroadcastOnlyOnSend ==
    /\ ret_op = <<>> => network = <<>> /\ signed = <<>> /\ key_reads = 0
    /\ ret_op # <<>> =>
          /\ network # <<>> => ret_op[1].send /\ ~ret_op[1].raw /\ ~ret_op[1].estimate
          /\ ret_op[1].raw => network = <<>>
          /\ ret_op[1].estimate => network = <<>>
          /\ (ret_op[1].raw /\ pc.at = "done") =>
                signed = [k \in 1 .. Len(txs) |-> txs[k].tx]
          /\ (~ret_op[1].raw /\ (ret_op[1].estimate \/ ~ret_op[1].send)) =>
                signed = <<>> /\ key_reads = 0
          /\ (ret_op[1].send /\ ~ret_op[1].raw /\ ~ret_op[1].estimate /\ pc.at = "done") =>
                network = [k \in 1 .. Len(txs) |-> txs[k].tx]

\* swap with --send and --raw together: the two transactions (approve,
\* swap) were signed with the key read twice, and none was broadcast.
C26_Witness ==
    /\ ret_op # <<>>
    /\ ret_op[1].op = "swap"
    /\ ret_op[1].send /\ ret_op[1].raw /\ ~ret_op[1].estimate
    /\ pc.at = "done"
    /\ Len(txs) = 2
    /\ signed = <<txs[1].tx, txs[2].tx>>
    /\ key_reads = 2
    /\ network = <<>>

\* The swap that got as far as the selection of a quote, its mode
\* (an output amount was given), and its swap transaction.
SwapQuoted == ret_op # <<>> /\ ret_op[1].op = "swap" /\ ret_op[1].locals.locals # None
SwapFindInMode == ret_op[1].locals.out_token_amount # 0
SwapBetter(a, b) == IF SwapFindInMode THEN a < b ELSE a > b
SwapBest == ret_op[1].locals.locals.best_quote
SwapTier == ret_op[1].locals.locals.fee_tier
SwapTxBuilt == ret_op[1].raised = None /\ txs[Len(txs)].tx # None
SwapTx == txs[Len(txs)].tx

\* The tier selected has the best quote (the smallest amountIn when an
\* output amount is given, the largest amountOut otherwise), and every
\* lower tier has a strictly worse one.
SwapTierIsBest ==
    /\ SwapTier \in DOMAIN chain.quotes
    /\ SwapBest = chain.quotes[SwapTier]
    /\ \A t \in DOMAIN chain.quotes :
          /\ ~SwapBetter(chain.quotes[t].amount, SwapBest.amount)
          /\ t < SwapTier => SwapBetter(SwapBest.amount, chain.quotes[t].amount)
    /\ SwapTxBuilt => SwapTx.args.fee = SwapTier

\* C27 as stated: the best tier is selected, ties go to the lowest tier,
\* and the amount of the selected quote is the amount of the balance check,
\* of the allowance check and of the swap transaction.
C27_SelectedQuoteUsed ==
    SwapQuoted =>
        /\ SwapTierIsBest
        /\ \A k \in 1 .. Len(ret_op[1].locals.balance_checked) :
              ret_op[1].locals.balance_checked[k] = SwapBest.amount
        /\ \A k \in 1 .. Len(ret_op[1].locals.allowance_checked) :
              ret_op[1].locals.allowance_checked[k] = SwapBest.amount
        /\ SwapTxBuilt =>
              IF SwapFindInMode THEN SwapTx.args.amountIn = SwapBest.amount
              ELSE SwapTx.args.amountOut = SwapBest.amount

\* C27, amended: the best tier is selected, ties go to the lowest tier;
\* when an output amount is given, the selected quote's amountIn is the
\* amount of the balance check, of the allowance check and the amountIn of
\* the swap transaction; when only the input amount is given, the balance
\* and the allowance are checked against that input amount and the selected
\* quote's amountOut is the amountOut of the swap transaction.
C27_SelectedQuoteUsedPerMode ==
    SwapQuoted =>
        /\ SwapTierIsBest
        /\ \A k \in 1 .. Len(ret_op[1].locals.balance_checked) :
              ret_op[1].locals.balance_checked[k] =
                  IF SwapFindInMode THEN SwapBest.amount
                  ELSE ret_op[1].locals.in_token_amount
        /\ \A k \in 1 .. Len(ret_op[1].locals.allowance_checked) :
              ret_op[1].locals.allowance_checked[k] =
                  IF SwapFindInMode THEN SwapBest.amount
                  ELSE ret_op[1].locals.in_token_amount
        /\ SwapTxBuilt =>
              IF SwapFindInMode
              THEN /\ SwapTx.args.amountIn = SwapBest.amount
                   /\ SwapTx.args.amountOutMinimum = ret_op[1].locals.out_token_amount
              ELSE /\ SwapTx.args.amountOut = SwapBest.amount
                   /\ SwapTx.args.amountInMaximum = ret_op[1].locals.in_token_amount

\* A swap of 1 of the input token: the tiers 500 and 3000 quote the largest
\* output, MaxAmount; tier 500 is selected, balance and allowance were
\* checked against 1, and the swap transaction asks for MaxAmount.
C27_Witness ==
    /\ SwapQuoted
    /\ ~SwapFindInMode
    /\ ret_op[1].locals.in_token_amount = 1
    /\ chain.quotes[100].amount = 1
    /\ chain.quotes[500].amount = MaxAmount
    /\ chain.quotes[3000].amount = MaxAmount
    /\ SwapTier = 500
    /\ ret_op[1].locals.balance_checked = <<1>>
    /\ ret_op[1].locals.allowance_checked = <<1>>
    /\ SwapTxBuilt
    /\ SwapTx.args.amountOut = MaxAmount

=============================================================================
